---------------------------- MODULE Spec2Model ----------------------------
(***************************************************************************)
(* Verification model of the online-praat-analysis robustness layer:       *)
(*   - the frame QC gate of the v2 pipeline (_extract_frames),             *)
(*   - the confidence scorer, ordering/spacing validator and window        *)
(*     selector of analyze_note_file_robust,                               *)
(*   - the VRP binner (_compute_vrp) and the anchor extractor              *)
(*     (_extract_anchor) with the legacy block and DynamoDB conversion.    *)
(*                                                                         *)
(* Number representation.  Frequencies and bandwidths are integer Hz,      *)
(* times are integer milliseconds, loudness is integer dB, voicing         *)
(* probabilities are hundredths.  A confidence is a fixed-point number     *)
(* with ConfOne units per 1.0.  NaN (and an absent dict key) is the        *)
(* sentinel NaN, tested with IsFinite exactly where the code calls         *)
(* np.isfinite or tests key membership.                                    *)
(***************************************************************************)
EXTENDS Integers, Sequences, FiniteSets, TLC

VARIABLES
    \* ---- _extract_frames (v2 frame QC gate) ----
    raw,        \* the raw per-frame estimates read from Praat so far
    rows,       \* the rows appended so far
    prev_f1,    \* previous accepted F1
    prev_f2,    \* previous accepted F2
    \* ---- analyze_note_file_robust ----
    npc,        \* position: "collect", "scan", "done"
    note_k,     \* number of pitch frames visited by the collection loop
    note_t,     \* time of the pitch frame visited last
    cands,      \* per collected frame: the scorer's output before the penalties
    all_frames, \* the frames collected (sorted by time when npc # "collect")
    win_i,      \* loop index i of the window scan
    win_j,      \* right pointer j of the window scan
    best_sum,   \* best score so far
    best_i,     \* left index of the best window (0-based, as in the code)
    best_j,     \* right index (exclusive) of the best window
    result,     \* the dict returned by analyze_note_file_robust
    \* ---- _compute_vrp ----
    glide_rows, \* input rows of the glide tasks
    vrp_loc,    \* locals of _compute_vrp: the valid mask and the semitones
    vrp,        \* the dict returned by _compute_vrp
    \* ---- _extract_anchor / legacy block / _to_dynamo ----
    arows,      \* all frame rows handed to _extract_anchor
    apc,        \* position: "rows", "stored"
    file_sel,   \* the file_selection argument of the call of _extract_anchor
    stable,     \* local of _extract_anchor: the indices in arows of the stable rows
    anchor,     \* the dict returned by _extract_anchor
    stored,     \* the legacy formant block after _to_dynamo
    \* ---- _calculate_confidence called on one candidate ----
    sc_args,    \* the arguments of the call: freq, bw, f0 and the prominence
    sc_loc,     \* its locals: bw_score, prom_score, prom_db, harm_penalty
    sc_ret,     \* the returned pair <<confidence, prominence_db>>
    sc_frame,   \* the frame dict built around the candidate
    \* ---- peak_prominence_db ----
    pp_env,     \* the envelope env_db (dB per bin)
    pp_args,    \* the arguments idx and the bin width of freq_bins
    pp_out,     \* the call's outcome: the returned value, its window bounds
    \* ---- the recordings of one session, each through _extract_frames ----
    recs,       \* per recording: its raw frames, rows, prev_f1, prev_f2, position
    \* ---- a note of uniform synthetic frames ----
    rt_n,       \* the number of frames of the note (0: no synthetic note)
    \* ---- repeated invocations of one component on the same input ----
    rp_comp,    \* the component invoked: "scorer", "window", "vrp", "anchor"
    rp_out,     \* the outputs of its earlier invocations, oldest first
    \* ---- _ensure_legacy_metrics_structure ----
    lg_in,      \* the metrics dict handed to the call
    lg_soft,    \* the soft_anchor argument
    lg_loud,    \* the loud_anchor argument
    lg_out,     \* the metrics dict after the call
    \* ---- _task_from_s3_key ----
    tk_in,      \* how the key was put together: form, step directory, file name
    tk_key,     \* the s3_key argument, as its characters
    tk_ret,     \* the returned task label
    \* ---- analyze_sustained_vowel ----
    sv_paths,   \* the local_paths argument
    sv_pc,      \* position: "paths", "loop", "done"
    sv_i,       \* number of paths the loop has visited
    best_file,  \* local best_file (position in local_paths, 0: None)
    max_voiced_duration,  \* local max_voiced_duration
    sv_ret,     \* the returned dict: metrics' error, chosen_file, mpt_s
    \* ---- _sort_and_select_notes ----
    np_paths,   \* the note_paths argument, in the order given
    np_pc,      \* position: "paths", "done"
    np_ret,     \* the returned pair <<low_note, high_note>>
    \* ---- one frame through the scorer and the validator ----
    vf_cand,    \* what Praat delivered for the frame
    vf_scored,  \* the scorer's <<s1, s2>> (NaN where it was not called)
    vf_frame,   \* the frame dict appended to all_frames
    \* ---- handler.py: the session API and the analysis task ----
    table,        \* the session table: sessionId -> item (NoItem: none)
    events_table, \* the self_test events put into the events table
    invocations,  \* asynchronous invocations Lambda accepted and has not run
    analyze_task, \* the running handle_analyze_task: position, payload, raises
    api           \* the API request being served, with its response code

qcVars     == <<raw, rows, prev_f1, prev_f2>>
noteVars   == <<npc, note_k, note_t, cands, all_frames, win_i, win_j, best_sum, best_i, best_j, result>>
vrpVars    == <<glide_rows, vrp_loc, vrp>>
anchorVars == <<arows, apc, file_sel, stable, anchor, stored>>
scoreVars  == <<sc_args, sc_loc, sc_ret, sc_frame>>
promVars   == <<pp_env, pp_args, pp_out>>
sessVars   == <<recs>>
roundVars  == <<rt_n>>
repVars    == <<rp_comp, rp_out>>
legacyVars == <<lg_in, lg_soft, lg_loud, lg_out>>
taskVars   == <<tk_in, tk_key, tk_ret>>
vowelVars  == <<sv_paths, sv_pc, sv_i, best_file, max_voiced_duration, sv_ret>>
notesVars  == <<np_paths, np_pc, np_ret>>
validVars  == <<vf_cand, vf_scored, vf_frame>>
apiVars    == <<table, events_table, invocations, analyze_task, api>>
svcVars    == <<legacyVars, taskVars, vowelVars, notesVars, validVars, apiVars>>
legacyOthers == <<taskVars, vowelVars, notesVars, validVars, apiVars>>
taskOthers == <<legacyVars, vowelVars, notesVars, validVars, apiVars>>
vowelOthers == <<legacyVars, taskVars, notesVars, validVars, apiVars>>
notesOthers == <<legacyVars, taskVars, vowelVars, validVars, apiVars>>
validOthers == <<legacyVars, taskVars, vowelVars, notesVars, apiVars>>
apiOthers  == <<legacyVars, taskVars, vowelVars, notesVars, validVars>>
extVars    == <<scoreVars, promVars, sessVars, roundVars, repVars, svcVars>>
vars       == <<qcVars, noteVars, vrpVars, anchorVars, extVars>>

---------------------------------------------------------------------------
(* Numbers *)

NaN == -999999

IsFinite(x) == x # NaN

Abs(x) == IF x < 0 THEN -x ELSE x

Max(a, b) == IF a >= b THEN a ELSE b

Min(a, b) == IF a <= b THEN a ELSE b

None == "None"

RECURSIVE SeqSum(_)
SeqSum(s) == IF Len(s) = 0 THEN 0 ELSE Head(s) + SeqSum(Tail(s))

\* the finite elements of s, in order
FiniteOnly(s) == SelectSeq(s, IsFinite)

\* s sorted ascending (insertion sort; Python's sorted / np.sort)
RECURSIVE Insert(_, _)
Insert(x, s) ==
    IF Len(s) = 0 THEN <<x>>
    ELSE IF x <= Head(s) THEN <<x>> \o s
    ELSE <<Head(s)>> \o Insert(x, Tail(s))

RECURSIVE Sorted(_)
Sorted(s) == IF Len(s) = 0 THEN <<>> ELSE Insert(Head(s), Sorted(Tail(s)))

\* twice the median of a non-empty sequence (np.median averages the two
\* middle values of an even-sized sample, so the median itself may be a
\* half-integer)
Median2(s) ==
    LET t == Sorted(s)
        n == Len(t)
    IN IF n % 2 = 1 THEN 2 * t[(n + 1) \div 2]
       ELSE t[n \div 2] + t[n \div 2 + 1]

---------------------------------------------------------------------------
(* _extract_frames: the v2 frame QC gate *)

qc_voicing_prob_min == 60
qc_f0_high_risk_hz  == 200
time_step_ms        == 10
calibration_offset_db == 0

F1_RANGE == <<150, 1200>>
F2_RANGE == <<500, 3500>>
F3_RANGE == <<1500, 4500>>
B1_RANGE == <<20, 1200>>
B2_RANGE == <<20, 1600>>
B3_RANGE == <<20, 2000>>
JUMP_F1  == 300
JUMP_F2  == 500

MaxRawFrames == 4

BaseRaw == [f0 |-> 150, vprob |-> 90, f1 |-> 700, f2 |-> 1200, f3 |-> 2500,
            b1 |-> 90, b2 |-> 110, b3 |-> 200, inten |-> 60]

\* the raw estimates Praat may deliver for one frame
RawFrames ==
    {[BaseRaw EXCEPT !.f1 = v] : v \in {NaN, 700, 702, 1000, 1100, 1400}}
    \cup {[BaseRaw EXCEPT !.f2 = v] : v \in {NaN, 1800, 3600}}
    \cup {[BaseRaw EXCEPT !.f0 = 250, !.vprob = 50],
          [BaseRaw EXCEPT !.f3 = 5000, !.b3 = NaN],
          [BaseRaw EXCEPT !.b1 = 10, !.b2 = 1700, !.b3 = 2100],
          [BaseRaw EXCEPT !.f0 = 0, !.vprob = 30],
          [BaseRaw EXCEPT !.f0 = NaN, !.vprob = NaN, !.inten = NaN]}

\* a range rule that keeps the value it was given
RangeKeep(v, range) == v

\* "if np.isfinite(v) and not (lo <= v <= hi): flag; v = nan"
RangeNull(v, range) ==
    IF IsFinite(v) /\ ~(range[1] <= v /\ v <= range[2]) THEN NaN ELSE v

\* a range rule that nulls without recording its flag
RangeFlagSilent(v, range, flag) == <<>>

RangeFlag(v, range, flag) ==
    IF IsFinite(v) /\ ~(range[1] <= v /\ v <= range[2]) THEN <<flag>> ELSE <<>>

\* "if np.isfinite(prev) and np.isfinite(v) and abs(v - prev) > limit"
IsJump(prev, v, limit) ==
    IsFinite(prev) /\ IsFinite(v) /\ Abs(v - prev) > limit

\* a nulled value carried over as the reference (the slip the gate avoids)
NextPrevNulled(prev, v) == v

\* "prev_f1 = f1 if np.isfinite(f1) else prev_f1"
NextPrev(prev, v) == IF IsFinite(v) THEN v ELSE prev

\* one iteration of the frame loop on the raw estimates fr of frame number i
QcRow(fr, i, pf1, pf2) ==
    LET spl   == IF IsFinite(fr.inten) THEN fr.inten + calibration_offset_db ELSE NaN
        fl_vp == IF IsFinite(fr.vprob) /\ fr.vprob < qc_voicing_prob_min
                 THEN <<"low_voicing_prob">> ELSE <<>>
        f0    == IF fr.f0 = 0 THEN NaN ELSE fr.f0
        f1r   == RangeNull(fr.f1, F1_RANGE)
        f2r   == RangeNull(fr.f2, F2_RANGE)
        f3r   == RangeNull(fr.f3, F3_RANGE)
        b1r   == RangeNull(fr.b1, B1_RANGE)
        b2r   == RangeNull(fr.b2, B2_RANGE)
        b3r   == RangeNull(fr.b3, B3_RANGE)
        fl_rg == RangeFlag(fr.f1, F1_RANGE, "formant_out_of_range_f1")
                 \o RangeFlag(fr.f2, F2_RANGE, "formant_out_of_range_f2")
                 \o RangeFlag(fr.f3, F3_RANGE, "formant_out_of_range_f3")
                 \o RangeFlag(fr.b1, B1_RANGE, "bandwidth_out_of_range_b1")
                 \o RangeFlag(fr.b2, B2_RANGE, "bandwidth_out_of_range_b2")
                 \o RangeFlag(fr.b3, B3_RANGE, "bandwidth_out_of_range_b3")
        fl_f0 == IF IsFinite(f0) /\ f0 > qc_f0_high_risk_hz
                 THEN <<"high_f0_risk">> ELSE <<>>
        j1    == IsJump(pf1, f1r, JUMP_F1)
        j2    == IsJump(pf2, f2r, JUMP_F2)
        f1    == IF j1 THEN NaN ELSE f1r
        f2    == IF j2 THEN NaN ELSE f2r
        fl_j  == (IF j1 THEN <<"jump_f1">> ELSE <<>>)
                 \o (IF j2 THEN <<"jump_f2">> ELSE <<>>)
    IN [file |-> "rec.wav", task |-> "soft_a",
        time_s |-> i * time_step_ms,
        f0_hz |-> f0, voicing_prob |-> fr.vprob,
        f1_hz |-> f1, f2_hz |-> f2, f3_hz |-> f3r,
        b1_hz |-> b1r, b2_hz |-> b2r, b3_hz |-> b3r,
        spl_db |-> spl,
        qc_flags |-> fl_vp \o fl_rg \o fl_f0 \o fl_j]

QcInit ==
    /\ raw = <<>>
    /\ rows = <<>>
    /\ prev_f1 = NaN
    /\ prev_f2 = NaN

\* the body of "for i in range(1, n + 1)" for the next frame of the recording
ExtractFrame ==
    /\ Len(rows) < MaxRawFrames
    /\ \E fr \in RawFrames :
        LET row == QcRow(fr, Len(rows) + 1, prev_f1, prev_f2)
        IN /\ raw' = Append(raw, fr)
           /\ rows' = Append(rows, row)
           /\ prev_f1' = NextPrev(prev_f1, row.f1_hz)
           /\ prev_f2' = NextPrev(prev_f2, row.f2_hz)
    /\ UNCHANGED <<noteVars, vrpVars, anchorVars>>
    /\ UNCHANGED extVars

---------------------------------------------------------------------------
(* _calculate_confidence: the confidence scorer *)

\* fixed-point unit of a confidence: ConfOne units are 1.0.  It is a multiple
\* of 15000, so the scorer's terms are exact, and 20 * ConfOne (the score of
\* a window of ten frames at full confidence) is below 2^31
ConfOne == 107370000

BW_LO     == 80
BW_HI     == 600
BW_MID    == 340
BW_DECAY  == 500
PROM_LO   == 30
PROM_HI   == 60

\* Python round(): nearest integer, ties to the even one (num, den > 0)
RoundDiv(num, den) ==
    LET q == num \div den
        r == num % den
    IN IF 2 * r < den THEN q
       ELSE IF 2 * r > den THEN q + 1
       ELSE IF q % 2 = 0 THEN q ELSE q + 1

\* a decay half as steep, reaching 0 at 1000 Hz from the midpoint
BwScoreSlow(bw) ==
    IF BW_LO <= bw /\ bw <= BW_HI THEN ConfOne
    ELSE Max(0, ConfOne - Abs(bw - BW_MID) * (ConfOne \div (2 * BW_DECAY)))

\* "1.0 if 80 <= bw_hz <= 600 else max(0.0, 1.0 - (abs(bw_hz - 340) / 500))"
BwScore(bw) ==
    IF BW_LO <= bw /\ bw <= BW_HI THEN ConfOne
    ELSE Max(0, ConfOne - Abs(bw - BW_MID) * (ConfOne \div BW_DECAY))

\* prom is the prominence in tenths of a dB, NaN when no envelope is given
PromDb(prom) == IF IsFinite(prom) THEN prom ELSE 0

\* the ramp without its floor below 3 dB
PromScoreNoFloor(prom) ==
    IF ~IsFinite(prom) THEN ConfOne \div 2
    ELSE IF prom >= PROM_HI THEN ConfOne
    ELSE (prom - PROM_LO) * (ConfOne \div (PROM_HI - PROM_LO))

PromScore(prom) ==
    IF ~IsFinite(prom) THEN ConfOne \div 2
    ELSE IF prom >= PROM_HI THEN ConfOne
    ELSE IF prom < PROM_LO THEN 0
    ELSE (prom - PROM_LO) * (ConfOne \div (PROM_HI - PROM_LO))

\* the penalty applied whatever the prominence
HarmPenaltyAnyProm(freq, f0, prom) ==
    IF IsFinite(f0) /\ f0 > 0
    THEN LET harm == RoundDiv(freq, f0)
         IN IF 100 * Abs(freq - harm * f0) < 3 * freq
            THEN ConfOne \div 5 ELSE 0
    ELSE 0

\* "harm_dist_rel < 0.03 and prom_db < 6" for f0 > 0
HarmPenalty(freq, f0, prom) ==
    IF IsFinite(f0) /\ f0 > 0
    THEN LET harm == RoundDiv(freq, f0)
         IN IF 100 * Abs(freq - harm * f0) < 3 * freq /\ PromDb(prom) < PROM_HI
            THEN ConfOne \div 5 ELSE 0
    ELSE 0

\* the weighted score returned without the floor at 0
CalculateConfidenceUnclamped(freq, bw, f0, prom) ==
    3 * (PromScore(prom) \div 5) + 2 * (BwScore(bw) \div 5)
        - HarmPenalty(freq, f0, prom)

\* the confidence returned by _calculate_confidence
CalculateConfidence(freq, bw, f0, prom) ==
    Max(0, 3 * (PromScore(prom) \div 5) + 2 * (BwScore(bw) \div 5)
           - HarmPenalty(freq, f0, prom))

---------------------------------------------------------------------------
(* analyze_note_file_robust: frame collection with the ordering/spacing   *)
(* validator                                                               *)

MIN_SPACING_12 == 150
MIN_SPACING_23 == 200
BW_CEILING     == 700
STRENGTH_MIN   == 60
HNR_MIN        == 8

MaxNoteFrames == 3

GoodCand == [gap |-> 10, f0 |-> 150, strength |-> 90, hnr |-> 15,
             f1 |-> 700, b1 |-> 90, f2 |-> 1200, b2 |-> 110,
             f3 |-> 2500, b3 |-> 200, prom1 |-> 80, prom2 |-> 80]

\* what Praat and the envelope may deliver for one pitch frame
NoteCands ==
    {GoodCand,
     [GoodCand EXCEPT !.gap = 300],
     [GoodCand EXCEPT !.f2 = 800],
     [GoodCand EXCEPT !.f1 = 900, !.f2 = 800],
     [GoodCand EXCEPT !.b1 = 750],
     [GoodCand EXCEPT !.f3 = NaN, !.b3 = NaN],
     [GoodCand EXCEPT !.f1 = NaN, !.b1 = NaN, !.b2 = 750],
     [GoodCand EXCEPT !.f3 = 1300],
     [GoodCand EXCEPT !.prom1 = 20, !.prom2 = 40],
     [GoodCand EXCEPT !.f0 = NaN],
     [GoodCand EXCEPT !.hnr = 5],
     [GoodCand EXCEPT !.strength = 50]}

\* "x * 0.2"
Mul02(c) == c \div 5

\* "fr.get('conf1', 0.0)"
GetConf(c) == IF IsFinite(c) THEN c ELSE 0

\* the frame gating of lines 203-214: True when the frame is skipped
Gated(c) ==
    \/ ~(IsFinite(c.f0) /\ c.f0 > 0)
    \/ c.strength < STRENGTH_MIN
    \/ ~(IsFinite(c.hnr) /\ c.hnr >= HNR_MIN)

\* the ordering rule misread as "F2 above F1" only (no minimum spacing)
Spacing12OkNoGap(f1, f2) == f1 < f2

\* "fr['f1'] < fr['f2'] and (fr['f2'] - fr['f1'] >= 150.0)"
Spacing12Ok(f1, f2) == f1 < f2 /\ f2 - f1 >= MIN_SPACING_12

Spacing23Ok(f2, f3) == f2 < f3 /\ f3 - f2 >= MIN_SPACING_23

\* the scorer's output for the candidate c: <<s1, s2>>, NaN where not called
Scored(c) ==
    <<IF IsFinite(c.f1) /\ IsFinite(c.b1)
      THEN CalculateConfidence(c.f1, c.b1, c.f0, c.prom1) ELSE NaN,
      IF IsFinite(c.f2) /\ IsFinite(c.b2)
      THEN CalculateConfidence(c.f2, c.b2, c.f0, c.prom2) ELSE NaN>>

\* the frame dict built for the candidate c at time t (lines 221-248)
BuildFrame(c, t) ==
    LET has1 == IsFinite(c.f1) /\ IsFinite(c.b1)
        has2 == IsFinite(c.f2) /\ IsFinite(c.b2)
        has3 == IsFinite(c.f3) /\ IsFinite(c.b3)
        s    == Scored(c)
        \* non-crossing / minimum spacing of F1 and F2
        viol12 == has1 /\ has2 /\ ~Spacing12Ok(c.f1, c.f2)
        c1a  == IF viol12 THEN Mul02(GetConf(s[1])) ELSE s[1]
        c2a  == IF viol12 THEN Mul02(GetConf(s[2])) ELSE s[2]
        \* hard bandwidth ceiling
        wide == (has1 /\ c.b1 > BW_CEILING) \/ (has2 /\ c.b2 > BW_CEILING)
        c1b  == IF wide THEN Mul02(GetConf(c1a)) ELSE c1a
        c2b  == IF wide THEN Mul02(GetConf(c2a)) ELSE c2a
        \* spacing of F2 and F3
        viol23 == has2 /\ has3 /\ ~Spacing23Ok(c.f2, c.f3)
        c2c  == IF viol23 THEN Mul02(GetConf(c2b)) ELSE c2b
    IN [time |-> t, f0 |-> c.f0, hnr |-> c.hnr,
        f1 |-> IF has1 THEN c.f1 ELSE NaN, b1 |-> IF has1 THEN c.b1 ELSE NaN,
        conf1 |-> c1b, prom1_db |-> IF has1 THEN PromDb(c.prom1) ELSE NaN,
        f2 |-> IF has2 THEN c.f2 ELSE NaN, b2 |-> IF has2 THEN c.b2 ELSE NaN,
        conf2 |-> c2c, prom2_db |-> IF has2 THEN PromDb(c.prom2) ELSE NaN,
        f3 |-> IF has3 THEN c.f3 ELSE NaN, b3 |-> IF has3 THEN c.b3 ELSE NaN]

NoteInit ==
    /\ npc = "collect"
    /\ note_k = 0
    /\ note_t = 0
    /\ cands = <<>>
    /\ all_frames = <<>>
    /\ win_i = 0
    /\ win_j = 0
    /\ best_sum = -ConfOne
    /\ best_i = 0
    /\ best_j = 0
    /\ result = [status |-> "none"]

\* one iteration of "for k, t in enumerate(times)": the frame is skipped by
\* the gating or scored, validated and appended
CollectFrame ==
    /\ npc = "collect"
    /\ note_k < MaxNoteFrames
    /\ \E c \in NoteCands :
        /\ note_k' = note_k + 1
        /\ note_t' = note_t + c.gap
        /\ IF Gated(c)
           THEN UNCHANGED <<cands, all_frames>>
           ELSE /\ cands' = Append(cands, Scored(c))
                /\ all_frames' = Append(all_frames, BuildFrame(c, note_t + c.gap))
    /\ UNCHANGED <<npc, win_i, win_j, best_sum, best_i, best_j, result>>
    /\ UNCHANGED <<qcVars, vrpVars, anchorVars>>
    /\ UNCHANGED extVars

---------------------------------------------------------------------------
(* analyze_note_file_robust: window selection and summary *)

W_MS       == 250
MIN_FRAMES == 8
CONF_AVAILABLE_MIN2 == ConfOne

\* math.isclose(a, b): abs(a - b) <= 1e-09 * max(abs(a), abs(b))
ISCLOSE_REL_INV == 1000000000

IsClose(a, b) == Abs(a - b) <= Max(Abs(a), Abs(b)) \div ISCLOSE_REL_INV

\* sorted(all_frames, key=lambda x: x['time']) (stable)
RECURSIVE InsertByTime(_, _)
InsertByTime(x, s) ==
    IF Len(s) = 0 THEN <<x>>
    ELSE IF x.time < Head(s).time THEN <<x>> \o s
    ELSE <<Head(s)>> \o InsertByTime(x, Tail(s))

RECURSIVE SortByTime(_)
SortByTime(s) ==
    IF Len(s) = 0 THEN <<>>
    ELSE InsertByTime(s[Len(s)], SortByTime(SubSeq(s, 1, Len(s) - 1)))

\* "while j < n and frames[j]['time'] - t0 <= W: j += 1" (j is 0-based)
RECURSIVE AdvanceJ(_, _, _)
AdvanceJ(frames, t0, j) ==
    IF j < Len(frames) /\ frames[j + 1].time - t0 <= W_MS
    THEN AdvanceJ(frames, t0, j + 1)
    ELSE j

\* frames[i:j] of the code (0-based, j exclusive)
Slice(frames, i, j) == SubSeq(frames, i + 1, j)

\* sum(f.get('conf1', 0.0) + f.get('conf2', 0.0) for f in window)
RECURSIVE ScoreSum(_)
ScoreSum(window) ==
    IF Len(window) = 0 THEN 0
    ELSE GetConf(Head(window).conf1) + GetConf(Head(window).conf2)
         + ScoreSum(Tail(window))

\* the update condition with the minimum-frames test left out
TakesOverNoMin(score_sum, i, j, bsum, bi, bj) ==
    \/ score_sum > bsum
    \/ IsClose(score_sum, bsum) /\ (j - i) > (bj - bi)

\* the update condition without the near-tie rule on the frame count
TakesOverNoTie(score_sum, i, j, bsum, bi, bj) ==
    score_sum > bsum /\ (j - i) >= MIN_FRAMES

\* an update condition under which a later window of equal score takes over
TakesOverLastTie(score_sum, i, j, bsum, bi, bj) ==
    score_sum >= bsum /\ (j - i) >= MIN_FRAMES

\* the condition of lines 269-270 under which window [i, j) becomes the best
TakesOver(score_sum, i, j, bsum, bi, bj) ==
    \/ score_sum > bsum /\ (j - i) >= MIN_FRAMES
    \/ IsClose(score_sum, bsum) /\ (j - i) > (bj - bi)

\* a selector that returns the empty slice when no window was recorded
BestWindowNoFallback(frames, bi, bj) == Slice(frames, bi, bj)

\* "frames[best_i:best_j] if best_j > best_i else frames"
BestWindow(frames, bi, bj) ==
    IF bj > bi THEN Slice(frames, bi, bj) ELSE frames

\* the values of key among the frames of window that carry it
RECURSIVE Vals(_, _)
Vals(window, key) ==
    IF Len(window) = 0 THEN <<>>
    ELSE (IF IsFinite(Head(window)[key]) THEN <<Head(window)[key]>> ELSE <<>>)
         \o Vals(Tail(window), key)

\* round(median_or_zero(key), 2), in hundredths
MedianOrZero(window, key) ==
    LET vals == Vals(window, key)
    IN IF Len(vals) > 0 THEN 50 * Median2(vals) ELSE 0

\* twice median_conf(key)
MedianConf2(window, key) ==
    LET vv == Vals(window, key)
    IN IF Len(vv) > 0 THEN Median2(vv) ELSE 0

\* the dict returned on success (lines 296-318); reason and the availability
\* flags are "None" when the key is absent
Summary(window) ==
    LET F1 == MedianOrZero(window, "f1")
        F2 == MedianOrZero(window, "f2")
        un1 == F1 = 0 \/ MedianConf2(window, "conf1") < CONF_AVAILABLE_MIN2
        un2 == F2 = 0 \/ MedianConf2(window, "conf2") < CONF_AVAILABLE_MIN2
    IN [status |-> "ok",
        F1 |-> F1, B1 |-> MedianOrZero(window, "b1"),
        F2 |-> F2, B2 |-> MedianOrZero(window, "b2"),
        F3 |-> MedianOrZero(window, "f3"), B3 |-> MedianOrZero(window, "b3"),
        f0_mean |-> MedianOrZero(window, "f0"),
        best_segment_time2 |-> IF Len(window) > 0 THEN Median2(Vals(window, "time")) ELSE NaN,
        best_window_frames |-> window,
        F1_available |-> IF un1 THEN "False" ELSE "True",
        F2_available |-> IF un2 THEN "False" ELSE "True",
        reason |-> IF un1 \/ un2 THEN "LOW_PROMINENCE" ELSE None,
        error_details |-> None]

\* the dict returned by the except branch (lines 322-327)
Failure(msg) ==
    [status |-> "failed",
     F1 |-> 0, B1 |-> 0, F2 |-> 0, B2 |-> 0, F3 |-> 0, B3 |-> 0,
     f0_mean |-> 0, best_segment_time2 |-> NaN,
     best_window_frames |-> <<>>,
     F1_available |-> None, F2_available |-> None,
     reason |-> msg, error_details |-> "Analysis failed"]

\* the end of the collection loops: no frame raises (and the except branch
\* returns), otherwise the frames are sorted and the scan starts
FinishCollect ==
    /\ npc = "collect"
    /\ IF Len(all_frames) = 0
       THEN /\ npc' = "done"
            /\ result' = Failure(IF note_k = 0 THEN "No voiced segments detected."
                                 ELSE "No valid analysis frames found.")
            /\ UNCHANGED all_frames
       ELSE /\ npc' = "scan"
            /\ all_frames' = SortByTime(all_frames)
            /\ UNCHANGED result
    /\ UNCHANGED <<note_k, note_t, cands, win_i, win_j, best_sum, best_i, best_j>>
    /\ UNCHANGED <<qcVars, vrpVars, anchorVars>>
    /\ UNCHANGED extVars

\* one iteration of "for i in range(n)" (lines 262-271)
ScanStep ==
    /\ npc = "scan"
    /\ win_i < Len(all_frames)
    /\ LET t0 == all_frames[win_i + 1].time
           j  == AdvanceJ(all_frames, t0, win_j)
           score_sum == ScoreSum(Slice(all_frames, win_i, j))
       IN /\ win_j' = j
          /\ IF TakesOver(score_sum, win_i, j, best_sum, best_i, best_j)
             THEN /\ best_sum' = score_sum
                  /\ best_i' = win_i
                  /\ best_j' = j
             ELSE UNCHANGED <<best_sum, best_i, best_j>>
    /\ win_i' = win_i + 1
    /\ UNCHANGED <<npc, note_k, note_t, cands, all_frames, result>>
    /\ UNCHANGED <<qcVars, vrpVars, anchorVars>>
    /\ UNCHANGED extVars

\* lines 273-318: the best window (or the fallback) is summarised
Summarise ==
    /\ npc = "scan"
    /\ win_i = Len(all_frames)
    /\ npc' = "done"
    /\ result' = Summary(BestWindow(all_frames, best_i, best_j))
    /\ UNCHANGED <<note_k, note_t, cands, all_frames, win_i, win_j, best_sum, best_i, best_j>>
    /\ UNCHANGED <<qcVars, vrpVars, anchorVars>>
    /\ UNCHANGED extVars

---------------------------------------------------------------------------
(* _mad_filtered and _compute_vrp: the VRP binner *)

VRP_VP_MIN    == 60
VRP_MIN_COUNT == 5
MAD_MIN_SIZE  == 5
MAD_K         == 3

MaxGlideRows == 6

\* round(69 + 12 * log2(f0 / 440)) tabulated for 191 <= f0 < 255 Hz:
\* <<semitone, lowest integer f0 that rounds to it, 100 * f0_center_hz>>
SEMI_TABLE == <<<<55, 191, 19600>>, <<56, 202, 20765>>, <<57, 214, 22000>>,
                <<58, 227, 23308>>, <<59, 240, 24694>>, <<60, 255, 26163>>>>

\* the semitone truncated instead of rounded
SemiOfFloor(f0) ==
    SEMI_TABLE[CHOOSE k \in 1..(Len(SEMI_TABLE) - 1) :
                   SEMI_TABLE[k][3] <= 100 * f0 /\ 100 * f0 < SEMI_TABLE[k + 1][3]][1]

SemiOf(f0) ==
    SEMI_TABLE[CHOOSE k \in 1..(Len(SEMI_TABLE) - 1) :
                   SEMI_TABLE[k][2] <= f0 /\ f0 < SEMI_TABLE[k + 1][2]][1]

SemiCenter100(n) ==
    SEMI_TABLE[CHOOSE k \in 1..Len(SEMI_TABLE) : SEMI_TABLE[k][1] = n][3]

\* the glide rows one recording may contribute: <<f0_hz, spl_db, voicing_prob>>
GlideKinds == <<
    [f0_hz |-> 219, spl_db |-> 60, voicing_prob |-> 90],
    [f0_hz |-> 220, spl_db |-> 62, voicing_prob |-> 90],
    [f0_hz |-> 221, spl_db |-> 64, voicing_prob |-> 90],
    [f0_hz |-> 220, spl_db |-> 95, voicing_prob |-> 90],
    [f0_hz |-> 233, spl_db |-> 70, voicing_prob |-> 90],
    [f0_hz |-> 220, spl_db |-> 62, voicing_prob |-> 50],
    [f0_hz |-> NaN, spl_db |-> 40, voicing_prob |-> 30],
    [f0_hz |-> 220, spl_db |-> NaN, voicing_prob |-> 90] >>

KindIndex(row) == CHOOSE k \in 1..Len(GlideKinds) : GlideKinds[k] = row

\* s[k] for the k with mask[k], in order
RECURSIVE Masked(_, _)
Masked(s, mask) ==
    IF Len(s) = 0 THEN <<>>
    ELSE (IF Head(mask) THEN <<Head(s)>> ELSE <<>>) \o Masked(Tail(s), Tail(mask))

\* 100 * np.nanpercentile(values, q) of a non-empty finite sample
\* (linear interpolation between the order statistics)
Percentile100(values, q) ==
    LET t   == Sorted(values)
        pos == (Len(t) - 1) * q
        lo  == pos \div 100
        fr  == pos % 100
    IN IF fr = 0 THEN 100 * t[lo + 1]
       ELSE 100 * t[lo + 1] + fr * (t[lo + 2] - t[lo + 1])

\* 100 * np.nanmean(values), rounded down to a hundredth
Mean100(values) == (100 * SeqSum(values)) \div Len(values)

\* twice the absolute deviations from the median: |2 v - 2 median|
Dev2(values) ==
    LET med2 == Median2(values)
    IN [k \in 1..Len(values) |-> Abs(2 * values[k] - med2)]

\* _mad_filtered: values within 3 MAD of the median (all of them when the
\* sample is small or the MAD is 0)
MadFiltered(values) ==
    IF Len(values) < MAD_MIN_SIZE THEN values
    ELSE LET d2   == Dev2(values)
             mad4 == Median2(d2)
         IN IF mad4 = 0 THEN values
            ELSE Masked(values, [k \in 1..Len(values) |-> 2 * d2[k] <= MAD_K * mad4])

\* the mask "valid" of lines 358-363
ValidMask(grows) ==
    LET has_any_finite_vp == \E k \in 1..Len(grows) : IsFinite(grows[k].voicing_prob)
    IN [k \in 1..Len(grows) |->
          /\ IsFinite(grows[k].f0_hz)
          /\ IsFinite(grows[k].spl_db)
          /\ (has_any_finite_vp =>
                 IsFinite(grows[k].voicing_prob) /\ grows[k].voicing_prob >= VRP_VP_MIN)]

\* the binner without the re-check after the MAD filter
VrpBinNoRecheck(n, f0s, spls, semis) ==
    LET m == [k \in 1..Len(f0s) |-> semis[k] = n]
        cnt == Cardinality({k \in 1..Len(f0s) : m[k]})
        spl_flt == MadFiltered(FiniteOnly(Masked(spls, m)))
    IN IF cnt < VRP_MIN_COUNT THEN <<>>
       ELSE <<[semi |-> n,
               f0_center_hz |-> SemiCenter100(n),
               spl_min |-> Percentile100(spl_flt, 5),
               spl_max |-> Percentile100(spl_flt, 95),
               spl_mean |-> Mean100(spl_flt),
               count |-> Len(spl_flt)]>>

\* the bin of semitone n, or <<>> when it is dropped (lines 374-394)
VrpBin(n, f0s, spls, semis) ==
    LET m == [k \in 1..Len(f0s) |-> semis[k] = n]
        cnt == Cardinality({k \in 1..Len(f0s) : m[k]})
        spl_sel == FiniteOnly(Masked(spls, m))
        spl_flt == MadFiltered(spl_sel)
    IN IF cnt < VRP_MIN_COUNT THEN <<>>
       ELSE IF Len(spl_sel) < VRP_MIN_COUNT THEN <<>>
       ELSE IF Len(spl_flt) < VRP_MIN_COUNT THEN <<>>
       ELSE <<[semi |-> n,
               f0_center_hz |-> SemiCenter100(n),
               spl_min |-> Percentile100(spl_flt, 5),
               spl_max |-> Percentile100(spl_flt, 95),
               spl_mean |-> Mean100(spl_flt),
               count |-> Len(spl_flt)]>>

\* "for n in range(min(semi_i), max(semi_i) + 1)"
RECURSIVE VrpBins(_, _, _, _, _)
VrpBins(n, hi, f0s, spls, semis) ==
    IF n > hi THEN <<>>
    ELSE VrpBin(n, f0s, spls, semis) \o VrpBins(n + 1, hi, f0s, spls, semis)

SeqMin(s) == CHOOSE x \in {s[k] : k \in 1..Len(s)} : \A k \in 1..Len(s) : x <= s[k]

SeqMax(s) == CHOOSE x \in {s[k] : k \in 1..Len(s)} : \A k \in 1..Len(s) : x >= s[k]

\* the locals of _compute_vrp: the valid mask and the semitone of each valid row
ComputeVrpLocals(grows) ==
    LET valid == ValidMask(grows)
        f0s   == Masked([k \in 1..Len(grows) |-> grows[k].f0_hz], valid)
    IN [valid |-> valid, semi_i |-> [k \in 1..Len(f0s) |-> SemiOf(f0s[k])]]

\* the dict returned by _compute_vrp
ComputeVrp(grows) ==
    IF Len(grows) = 0 THEN [status |-> "error", error |-> "no_glide_rows"]
    ELSE LET loc  == ComputeVrpLocals(grows)
             f0s  == Masked([k \in 1..Len(grows) |-> grows[k].f0_hz], loc.valid)
             spls == Masked([k \in 1..Len(grows) |-> grows[k].spl_db], loc.valid)
         IN IF Len(f0s) = 0
            THEN [status |-> "error", error |-> "no_valid_voiced_glide_frames"]
            ELSE [status |-> "ok", error |-> None,
                  f0_min |-> Percentile100(f0s, 10),
                  f0_max |-> Percentile100(f0s, 90),
                  spl_min |-> Percentile100(spls, 10),
                  spl_max |-> Percentile100(spls, 90),
                  bins |-> VrpBins(SeqMin(loc.semi_i), SeqMax(loc.semi_i),
                                   f0s, spls, loc.semi_i)]

VrpInit ==
    /\ glide_rows = <<>>
    /\ vrp_loc = [valid |-> <<>>, semi_i |-> <<>>]
    /\ vrp = [status |-> "none"]

\* a glide recording contributes one more row to glide_rows (the rows are
\* listed in the order of GlideKinds; _compute_vrp does not depend on it)
AddGlideRow ==
    /\ vrp.status = "none"
    /\ Len(glide_rows) < MaxGlideRows
    /\ \E k \in 1..Len(GlideKinds) :
        /\ Len(glide_rows) > 0 => KindIndex(glide_rows[Len(glide_rows)]) <= k
        /\ glide_rows' = Append(glide_rows, GlideKinds[k])
    /\ UNCHANGED <<vrp_loc, vrp>>
    /\ UNCHANGED <<qcVars, noteVars, anchorVars>>
    /\ UNCHANGED extVars

\* vrp = _compute_vrp(glide_rows)
RunComputeVrp ==
    /\ vrp.status = "none"
    /\ vrp' = ComputeVrp(glide_rows)
    /\ vrp_loc' = IF Len(glide_rows) = 0 THEN vrp_loc ELSE ComputeVrpLocals(glide_rows)
    /\ UNCHANGED glide_rows
    /\ UNCHANGED <<qcVars, noteVars, anchorVars>>
    /\ UNCHANGED extVars

---------------------------------------------------------------------------
(* _extract_anchor: the anchor extractor *)

ANCHOR_VP_MIN     == 60
ANCHOR_MIN_FRAMES == 5

\* Python None in a numeric slot of a dict
NoneNum == -888888

MaxAnchorRows == 9

\* at most this many rows of a recording differ from the voiced kind
MaxOddRows == 5

\* the frame rows a recording of the task may hold (file and time are set
\* when the row is added)
VoicedRow == [file |-> "a.wav", task |-> "soft_a", time_s |-> 0,
              f0_hz |-> 150, voicing_prob |-> 90,
              f1_hz |-> 700, f2_hz |-> 1200, f3_hz |-> 2500,
              b1_hz |-> 90, b2_hz |-> 110, b3_hz |-> 200, spl_db |-> 60]

AnchorKinds ==
    {VoicedRow,
     [VoicedRow EXCEPT !.f0_hz = NaN, !.voicing_prob = NaN, !.f1_hz = NaN,
                       !.b1_hz = NaN, !.spl_db = 40],
     [VoicedRow EXCEPT !.voicing_prob = 50, !.f1_hz = 760, !.spl_db = 55]}

\* the single row of a second recording
OtherRows ==
    {[VoicedRow EXCEPT !.file = "b.wav"],
     [VoicedRow EXCEPT !.file = "c.wav", !.task = "loud_a"]}

\* "sel = [r for r in rows if r.get('task') == task_name]", as the ascending
\* indices of those rows in rs
TaskIdx(rs, task_name) ==
    SelectSeq([k \in 1..Len(rs) |-> k], LAMBDA k : rs[k].task = task_name)

\* "file_rows = [r for r in sel if r.get('file') == file_name]", as indices
FileIdx(rs, task_name, fn) ==
    SelectSeq([k \in 1..Len(rs) |-> k],
              LAMBDA k : rs[k].task = task_name /\ rs[k].file = fn)

\* "is_voiced" of line 430
IsVoiced(r) ==
    IsFinite(r.f0_hz) /\ (~IsFinite(r.voicing_prob) \/ r.voicing_prob >= ANCHOR_VP_MIN)

\* the score (voiced, total) of file fn among the rows at the indices sel
FileScore(rs, sel, fn) ==
    <<Cardinality({k \in 1..Len(sel) : rs[sel[k]].file = fn /\ IsVoiced(rs[sel[k]])}),
      Cardinality({k \in 1..Len(sel) : rs[sel[k]].file = fn})>>

\* file names: "a.wav" < "b.wav" < "c.wav" in Python's string order
FileRank(fn) == IF fn = "a.wav" THEN 1 ELSE IF fn = "b.wav" THEN 2 ELSE 3

\* the key (voiced, total, name) of a is greater than that of b
ScoreGreater(sa, fa, sb, fb) ==
    \/ sa[1] > sb[1]
    \/ sa[1] = sb[1] /\ sa[2] > sb[2]
    \/ sa[1] = sb[1] /\ sa[2] = sb[2] /\ FileRank(fa) > FileRank(fb)

\* the file chosen by lines 420-434
ChosenFile(rs, sel, file_selection) ==
    IF file_selection = "max_voiced"
    THEN LET files == {rs[sel[k]].file : k \in 1..Len(sel)}
         IN CHOOSE f \in files :
                \A g \in files \ {f} :
                    ScoreGreater(FileScore(rs, sel, f), f, FileScore(rs, sel, g), g)
    ELSE rs[sel[1]].file

\* a stability test over the whole recording instead of its middle half
IsStableAnyTime(r, left4, right4) ==
    /\ IsFinite(r.time_s)
    /\ ~(IsFinite(r.voicing_prob) /\ r.voicing_prob < ANCHOR_VP_MIN)

\* the test of lines 453-456; left4 and right4 are 4 * left and 4 * right
IsStable(r, left4, right4) ==
    /\ IsFinite(r.time_s) /\ 4 * r.time_s >= left4 /\ 4 * r.time_s <= right4
    /\ ~(IsFinite(r.voicing_prob) /\ r.voicing_prob < ANCHOR_VP_MIN)

\* the values of key in the rows of rs at the indices idx
ColAt(rs, idx, key) == [k \in 1..Len(idx) |-> rs[idx[k]][key]]

\* med(key): 100 * median of the finite values, NaN when there is none
Med100(rs, idx, key) ==
    LET vals == FiniteOnly(ColAt(rs, idx, key))
    IN IF Len(vals) > 0 THEN 50 * Median2(vals) ELSE NaN

\* 100 * spl_mad
SplMad100(rs, idx) ==
    LET vals == FiniteOnly(ColAt(rs, idx, "spl_db"))
    IN IF Len(vals) > 0 THEN 25 * Median2(Dev2(vals)) ELSE NaN

AnchorError(task_name, err) ==
    [task |-> task_name, error |-> err, file |-> None,
     f0_hz |-> NoneNum, f1_hz |-> NoneNum, f2_hz |-> NoneNum, f3_hz |-> NoneNum,
     b1_hz |-> NoneNum, b2_hz |-> NoneNum, b3_hz |-> NoneNum,
     spl_db |-> NoneNum, spl_mad_db |-> NoneNum, n_frames |-> NoneNum]

\* the indices of the stable rows (empty on the early returns)
StableOf(rs, task_name, file_selection) ==
    LET sel == TaskIdx(rs, task_name)
    IN IF Len(sel) = 0 THEN <<>>
       ELSE LET fn == ChosenFile(rs, sel, file_selection)
                fr == FileIdx(rs, task_name, fn)
                ts == FiniteOnly(ColAt(rs, fr, "time_s"))
            IN IF Len(fr) = 0 \/ Len(ts) = 0 \/ SeqMax(ts) <= SeqMin(ts) THEN <<>>
               ELSE LET tmin == SeqMin(ts)
                        tmax == SeqMax(ts)
                        left4 == 4 * tmin + (tmax - tmin)
                        right4 == 4 * tmin + 3 * (tmax - tmin)
                    IN SelectSeq(fr, LAMBDA k : IsStable(rs[k], left4, right4))

\* the dict returned by _extract_anchor; keys that the dict does not hold
\* are None / NoneNum (what dict.get returns for them)
ExtractAnchor(rs, task_name, file_selection) ==
    LET sel == TaskIdx(rs, task_name)
    IN IF Len(sel) = 0 THEN AnchorError(task_name, "no_rows")
       ELSE LET fn == ChosenFile(rs, sel, file_selection)
                fr == FileIdx(rs, task_name, fn)
                ts == FiniteOnly(ColAt(rs, fr, "time_s"))
            IN IF Len(fr) = 0 THEN AnchorError(task_name, "no_file_rows")
               ELSE IF Len(ts) = 0 \/ SeqMax(ts) <= SeqMin(ts)
               THEN AnchorError(task_name, "invalid_time_range")
               ELSE LET st == StableOf(rs, task_name, file_selection)
                    IN IF Len(st) < ANCHOR_MIN_FRAMES
                       THEN AnchorError(task_name, "insufficient_stable_frames")
                       ELSE [task |-> task_name, error |-> None, file |-> fn,
                             f0_hz |-> Med100(rs, st, "f0_hz"),
                             f1_hz |-> Med100(rs, st, "f1_hz"),
                             f2_hz |-> Med100(rs, st, "f2_hz"),
                             f3_hz |-> Med100(rs, st, "f3_hz"),
                             b1_hz |-> Med100(rs, st, "b1_hz"),
                             b2_hz |-> Med100(rs, st, "b2_hz"),
                             b3_hz |-> Med100(rs, st, "b3_hz"),
                             spl_db |-> Med100(rs, st, "spl_db"),
                             spl_mad_db |-> SplMad100(rs, st),
                             n_frames |-> Len(st)]

---------------------------------------------------------------------------
(* _build_legacy_formant_block and _to_dynamo *)

\* _to_dynamo on a float: NaN and inf become Decimal('0'); None stays None
ToDynamo(v) == IF v = NaN THEN 0 ELSE v

\* _build_legacy_formant_block(anchor)
BuildLegacyFormantBlock(a) ==
    [F1 |-> a.f1_hz, B1 |-> a.b1_hz, F2 |-> a.f2_hz, B2 |-> a.b2_hz,
     F3 |-> a.f3_hz, B3 |-> a.b3_hz,
     f0_mean |-> a.f0_hz, spl_dbA_est |-> a.spl_db,
     source_file |-> a.file,
     reason |-> IF a.error # None THEN a.error ELSE "SUCCESS",
     error_details |-> IF a.error # None THEN a.error ELSE ""]

\* _to_dynamo on the legacy block (a dict: applied to every value)
BlockToDynamo(b) ==
    [F1 |-> ToDynamo(b.F1), B1 |-> ToDynamo(b.B1),
     F2 |-> ToDynamo(b.F2), B2 |-> ToDynamo(b.B2),
     F3 |-> ToDynamo(b.F3), B3 |-> ToDynamo(b.B3),
     f0_mean |-> ToDynamo(b.f0_mean), spl_dbA_est |-> ToDynamo(b.spl_dbA_est),
     source_file |-> b.source_file,
     reason |-> b.reason, error_details |-> b.error_details]

AnchorInit ==
    /\ arows = <<>>
    /\ apc = "rows"
    /\ file_sel = None
    /\ stable = <<>>
    /\ anchor = [task |-> "none"]
    /\ stored = [reason |-> "none"]

\* the frame loop of the task's recording appends its next row (one row per
\* time step)
AddAnchorRow ==
    /\ apc = "rows"
    /\ Len(arows) < MaxAnchorRows
    /\ \A k \in 1..Len(arows) : arows[k].file = "a.wav"
    /\ \E r \in AnchorKinds :
        /\ Cardinality({k \in 1..Len(arows) : ~IsVoiced(arows[k])})
             + (IF IsVoiced(r) THEN 0 ELSE 1) <= MaxOddRows
        /\ arows' = Append(arows, [r EXCEPT !.time_s = (Len(arows) + 1) * time_step_ms])
    /\ UNCHANGED <<apc, file_sel, stable, anchor, stored>>
    /\ UNCHANGED <<qcVars, noteVars, vrpVars>>
    /\ UNCHANGED extVars

\* a second recording contributes its row after those of the first
AddOtherRow ==
    /\ apc = "rows"
    /\ \A k \in 1..Len(arows) : arows[k].file = "a.wav"
    /\ \E r \in OtherRows :
        arows' = Append(arows, [r EXCEPT !.time_s = time_step_ms])
    /\ UNCHANGED <<apc, file_sel, stable, anchor, stored>>
    /\ UNCHANGED <<qcVars, noteVars, vrpVars>>
    /\ UNCHANGED extVars

\* the analysis of the task: anchor = _extract_anchor(all_rows, 'soft_a',
\* file_selection), then its legacy formant block is built and written to
\* the session item through _to_dynamo
RunExtractAnchor ==
    /\ apc = "rows"
    /\ \E file_selection \in {"first", "max_voiced"} :
        /\ file_sel' = file_selection
        /\ anchor' = ExtractAnchor(arows, "soft_a", file_selection)
        /\ stable' = StableOf(arows, "soft_a", file_selection)
        /\ stored' = BlockToDynamo(BuildLegacyFormantBlock(
                          ExtractAnchor(arows, "soft_a", file_selection)))
    /\ apc' = "stored"
    /\ UNCHANGED arows
    /\ UNCHANGED <<qcVars, noteVars, vrpVars>>
    /\ UNCHANGED extVars

---------------------------------------------------------------------------
(* _calculate_confidence called on one candidate, and the frame built      *)
(* around it by analyze_note_file_robust                                   *)

\* candidate frequencies: away from the harmonics of 150 Hz, on one (450),
\* 1.1% and 4.3% off one, and below half of f0 (nearest multiple 0)
ScoreFreqs == {700, 450, 455, 470, 60}

ScoreBws == {20, 79, 80, 90, 340, 600, 601, 700, 839, 840, 900, 1000, 1180, 1200}

\* f0 as the scorer may receive it; 0 stands for "no pitch"
ScoreF0s == {150, 0}

\* prominence in tenths of a dB; NaN when no envelope is supplied
ScoreProms == {NaN, -20, 0, 29, 30, 45, 59, 60, 80}

NoFrame == [time |-> NaN]

ScoreInit ==
    /\ sc_args = [freq_hz |-> NaN, bw_hz |-> NaN, f0 |-> NaN, prom |-> NaN]
    /\ sc_loc = [bw_score |-> NaN, prom_score |-> NaN, prom_db |-> NaN,
                 harm_penalty |-> NaN]
    /\ sc_ret = <<NaN, NaN>>
    /\ sc_frame = NoFrame

\* s1, p1 = _calculate_confidence(f1, b1, f0, true_envelope, freq_bins) for
\* the F1 candidate of a frame, and the frame dict of lines 221-248 when the
\* frame passes the gating
CallConfidence ==
    /\ sc_ret = <<NaN, NaN>>
    /\ \E freq \in ScoreFreqs, bw \in ScoreBws, f0 \in ScoreF0s,
          prom \in ScoreProms, near \in BOOLEAN :
        LET c == [GoodCand EXCEPT !.f0 = f0, !.f1 = freq, !.b1 = bw,
                                  !.prom1 = prom,
                                  !.f2 = IF near THEN freq + 100 ELSE freq + 500]
        IN /\ sc_args' = [freq_hz |-> freq, bw_hz |-> bw, f0 |-> f0, prom |-> prom]
           /\ sc_loc' = [bw_score |-> BwScore(bw),
                         prom_score |-> PromScore(prom),
                         prom_db |-> PromDb(prom),
                         harm_penalty |-> HarmPenalty(freq, f0, prom)]
           /\ sc_ret' = <<CalculateConfidence(freq, bw, f0, prom), PromDb(prom)>>
           /\ sc_frame' = IF Gated(c) THEN NoFrame ELSE BuildFrame(c, 0)
    /\ UNCHANGED <<qcVars, noteVars, vrpVars, anchorVars>>
    /\ UNCHANGED <<promVars, sessVars, roundVars, repVars, svcVars>>

---------------------------------------------------------------------------
(* peak_prominence_db: the prominence of an envelope peak *)

WIN_HZ        == 150
DEFAULT_BINS  == 20

MaxEnvLen == 6

\* envelope magnitudes (dB) a bin may hold
EnvLevels == {0, 4, 9}

\* the spacing freq_bins[1] - freq_bins[0] of the frequency axis in Hz; NaN
\* when freq_bins is None or shorter than 2
BinWidths == {NaN, 200, 150, 75, 50}

\* left_bins = right_bins of lines 87-92
WinBins(bin_hz) ==
    IF bin_hz = NaN THEN DEFAULT_BINS ELSE Max(1, WIN_HZ \div bin_hz)

\* an early return for the first bin only
TooCloseFirstOnly(idx, n) == idx <= 0

\* "if idx <= 1 or idx >= len(env_db) - 2" (idx is 0-based)
TooClose(idx, n) == idx <= 1 \/ idx >= n - 2

\* peak_prominence_db(env_db, idx, freq_bins): the returned value, whether
\* it is the early return of line 86, and the bounds l0, r0 of the windows
\* env_db[l0:idx] and env_db[idx+1:r0]
PeakProminenceDb(env, idx, bin_hz) ==
    IF TooClose(idx, Len(env))
    THEN [ret |-> 0, early |-> TRUE, l0 |-> NaN, r0 |-> NaN]
    ELSE LET k     == WinBins(bin_hz)
             l0    == Max(0, idx - k)
             r0    == Min(Len(env), idx + k + 1)
             left  == SubSeq(env, l0 + 1, idx)
             right == SubSeq(env, idx + 2, r0)
         IN [ret |-> IF Len(left) = 0 \/ Len(right) = 0 THEN 0
                     ELSE env[idx + 1] - Max(SeqMin(left), SeqMin(right)),
             early |-> FALSE, l0 |-> l0, r0 |-> r0]

PromInit ==
    /\ pp_env = <<>>
    /\ pp_args = [idx |-> NaN, bin_hz |-> NaN]
    /\ pp_out = [ret |-> NaN, early |-> FALSE, l0 |-> NaN, r0 |-> NaN]

\* the envelope gets its next bin
AddEnvBin ==
    /\ pp_out.ret = NaN
    /\ Len(pp_env) < MaxEnvLen
    /\ \E v \in EnvLevels : pp_env' = Append(pp_env, v)
    /\ UNCHANGED <<pp_args, pp_out>>
    /\ UNCHANGED <<qcVars, noteVars, vrpVars, anchorVars>>
    /\ UNCHANGED <<scoreVars, sessVars, roundVars, repVars, svcVars>>

\* prom_db = peak_prominence_db(true_envelope, idx, freq_bins) for the bin
\* idx nearest to the candidate frequency
CallPeakProminence ==
    /\ pp_out.ret = NaN
    /\ Len(pp_env) > 0
    /\ \E idx \in 0..(Len(pp_env) - 1), bin_hz \in BinWidths :
        /\ pp_args' = [idx |-> idx, bin_hz |-> bin_hz]
        /\ pp_out' = PeakProminenceDb(pp_env, idx, bin_hz)
    /\ UNCHANGED pp_env
    /\ UNCHANGED <<qcVars, noteVars, vrpVars, anchorVars>>
    /\ UNCHANGED <<scoreVars, sessVars, roundVars, repVars, svcVars>>

---------------------------------------------------------------------------
(* perform_full_analysis_v2: the recordings of a session, each scanned by  *)
(* its own call of _extract_frames                                         *)

Recordings == {1, 2}

MaxSessFrames == 3

\* the raw estimates of a frame of a session recording
SessFrames ==
    {[BaseRaw EXCEPT !.f1 = v] : v \in {NaN, 700, 1100}}
    \cup {[BaseRaw EXCEPT !.f2 = 1800]}

\* a scan that starts from the reference another scan left behind
InitialPrevCarried(left_over) == left_over

\* "prev_f1 = np.nan" / "prev_f2 = np.nan": a call starts without a
\* reference, whatever an earlier or concurrent scan has accepted
InitialPrev(left_over) == NaN

SessInit ==
    recs = [r \in Recordings |->
              [pc |-> "idle", raw |-> <<>>, rows |-> <<>>,
               prev_f1 |-> NaN, prev_f2 |-> NaN]]

\* rows = _extract_frames(snd, p, calib, file_id, task) is entered for the
\* recording r
StartScan(r) ==
    /\ recs[r].pc = "idle"
    /\ \E o \in Recordings \ {r} :
        recs' = [recs EXCEPT ![r].pc = "scan",
                             ![r].prev_f1 = InitialPrev(recs[o].prev_f1),
                             ![r].prev_f2 = InitialPrev(recs[o].prev_f2)]
    /\ UNCHANGED <<qcVars, noteVars, vrpVars, anchorVars>>
    /\ UNCHANGED <<scoreVars, promVars, roundVars, repVars, svcVars>>

\* one iteration of the frame loop of the scan of recording r
ScanFrame(r) ==
    /\ recs[r].pc = "scan"
    /\ Len(recs[r].rows) < MaxSessFrames
    /\ \E fr \in SessFrames :
        LET row == QcRow(fr, Len(recs[r].rows) + 1, recs[r].prev_f1, recs[r].prev_f2)
        IN recs' = [recs EXCEPT ![r].raw = Append(@, fr),
                                ![r].rows = Append(@, row),
                                ![r].prev_f1 = NextPrev(@, row.f1_hz),
                                ![r].prev_f2 = NextPrev(@, row.f2_hz)]
    /\ UNCHANGED <<qcVars, noteVars, vrpVars, anchorVars>>
    /\ UNCHANGED <<scoreVars, promVars, roundVars, repVars, svcVars>>

StartAnyScan == \E r \in Recordings : StartScan(r)

ScanAnyFrame == \E r \in Recordings : ScanFrame(r)

---------------------------------------------------------------------------
(* analyze_note_file_robust on a note of uniform synthetic frames *)

SPAN_MS == 500

\* the frame counts of the note; 20 is the scenario of the round trip
RoundSizes == {2, 5, 10, 16, 19, 20}

RoundInit == rt_n = 0

\* the next pitch frame of a note whose rt_n frames are spread evenly over
\* SPAN_MS, each with f0 150 Hz, F1 700 / B1 90, F2 1200 / B2 110 and 8 dB of
\* prominence: it passes the gating and is scored, validated and appended
CollectUniformFrame ==
    /\ npc = "collect"
    /\ note_k < rt_n
    /\ LET t == (note_k * SPAN_MS) \div (rt_n - 1)
       IN /\ ~Gated(GoodCand)
          /\ note_k' = note_k + 1
          /\ note_t' = t
          /\ cands' = Append(cands, Scored(GoodCand))
          /\ all_frames' = Append(all_frames, BuildFrame(GoodCand, t))
    /\ UNCHANGED <<npc, win_i, win_j, best_sum, best_i, best_j, result>>
    /\ UNCHANGED <<qcVars, vrpVars, anchorVars>>
    /\ UNCHANGED <<scoreVars, promVars, sessVars, roundVars, repVars, svcVars>>

---------------------------------------------------------------------------
(* Repeated invocations of the scorer, the window selector, _compute_vrp   *)
(* and _extract_anchor on the same input                                   *)

Components == {"scorer", "window", "vrp", "anchor"}

\* unvoiced rows of the anchor task in a run of repeated invocations
MaxRepeatOdd == 2

RepInit ==
    /\ rp_comp = "none"
    /\ rp_out = <<>>

\* a list of bins that a call would inherit from the call before it
EntryBinsCarried(left_over) == left_over

\* "bins: List[Dict] = []": the list is created by the call, whatever list
\* an earlier call built
EntryBins(left_over) == <<>>

\* "best_sum, best_i, best_j = -1.0, 0, 0": the scan starts from these
\* values, whatever an earlier scan ended with
EntryBest(left_over) == <<-ConfOne, 0, 0>>

\* _compute_vrp(grows) called after a call that left the list left_over
ComputeVrpFrom(left_over, grows) ==
    LET v == ComputeVrp(grows)
    IN IF v.status = "ok"
       THEN [v EXCEPT !.bins = EntryBins(left_over) \o @]
       ELSE v

\* the first call of the component under repetition
FirstConfidence == rp_comp = "scorer" /\ CallConfidence

FirstScanStep == rp_comp = "window" /\ ScanStep

FirstSummarise == rp_comp = "window" /\ Summarise

FirstGlideRow == rp_comp = "vrp" /\ AddGlideRow

FirstComputeVrp == rp_comp = "vrp" /\ RunComputeVrp

FirstAnchorRow ==
    /\ rp_comp = "anchor"
    /\ Cardinality({k \in 1..Len(arows) : ~IsVoiced(arows[k])}) < MaxRepeatOdd
    /\ AddAnchorRow

FirstOtherRow == rp_comp = "anchor" /\ AddOtherRow

FirstExtractAnchor == rp_comp = "anchor" /\ RunExtractAnchor

\* _calculate_confidence is called again with the same arguments
CallConfidenceAgain ==
    /\ rp_comp = "scorer"
    /\ sc_ret # <<NaN, NaN>>
    /\ rp_out = <<>>
    /\ rp_out' = Append(rp_out, sc_ret)
    /\ sc_loc' = [bw_score |-> BwScore(sc_args.bw_hz),
                  prom_score |-> PromScore(sc_args.prom),
                  prom_db |-> PromDb(sc_args.prom),
                  harm_penalty |-> HarmPenalty(sc_args.freq_hz, sc_args.f0,
                                               sc_args.prom)]
    /\ sc_ret' = <<CalculateConfidence(sc_args.freq_hz, sc_args.bw_hz,
                                       sc_args.f0, sc_args.prom),
                   PromDb(sc_args.prom)>>
    /\ UNCHANGED <<sc_args, sc_frame, rp_comp>>
    /\ UNCHANGED <<qcVars, noteVars, vrpVars, anchorVars>>
    /\ UNCHANGED <<promVars, sessVars, roundVars, svcVars>>

\* the window selection is run again over the same frames: lines 256-261
\* sort them and set the scan's locals
ScanAgain ==
    /\ rp_comp = "window"
    /\ npc = "done"
    /\ rp_out = <<>>
    /\ rp_out' = Append(rp_out, result)
    /\ npc' = "scan"
    /\ all_frames' = SortByTime(all_frames)
    /\ win_i' = 0
    /\ win_j' = 0
    /\ best_sum' = EntryBest(<<best_sum, best_i, best_j>>)[1]
    /\ best_i' = EntryBest(<<best_sum, best_i, best_j>>)[2]
    /\ best_j' = EntryBest(<<best_sum, best_i, best_j>>)[3]
    /\ UNCHANGED <<note_k, note_t, cands, result, rp_comp>>
    /\ UNCHANGED <<qcVars, vrpVars, anchorVars>>
    /\ UNCHANGED <<scoreVars, promVars, sessVars, roundVars, svcVars>>

\* _compute_vrp is called again with the same glide rows
RunComputeVrpAgain ==
    /\ rp_comp = "vrp"
    /\ vrp.status # "none"
    /\ rp_out = <<>>
    /\ rp_out' = Append(rp_out, vrp)
    /\ vrp' = ComputeVrpFrom(IF vrp.status = "ok" THEN vrp.bins ELSE <<>>,
                             glide_rows)
    /\ vrp_loc' = IF Len(glide_rows) = 0 THEN vrp_loc
                  ELSE ComputeVrpLocals(glide_rows)
    /\ UNCHANGED <<glide_rows, rp_comp>>
    /\ UNCHANGED <<qcVars, noteVars, anchorVars>>
    /\ UNCHANGED <<scoreVars, promVars, sessVars, roundVars, svcVars>>

\* _extract_anchor is called again with the same rows and file_selection
RunExtractAnchorAgain ==
    /\ rp_comp = "anchor"
    /\ apc = "stored"
    /\ rp_out = <<>>
    /\ rp_out' = Append(rp_out, anchor)
    /\ anchor' = ExtractAnchor(arows, "soft_a", file_sel)
    /\ stable' = StableOf(arows, "soft_a", file_sel)
    /\ stored' = BlockToDynamo(BuildLegacyFormantBlock(
                      ExtractAnchor(arows, "soft_a", file_sel)))
    /\ UNCHANGED <<arows, apc, file_sel, rp_comp>>
    /\ UNCHANGED <<qcVars, noteVars, vrpVars>>
    /\ UNCHANGED <<scoreVars, promVars, sessVars, roundVars, svcVars>>

---------------------------------------------------------------------------
(* _ensure_legacy_metrics_structure: the legacy keys of the metrics dict   *)

\* a key that a dict does not hold
Absent == "absent"

\* a value that is not a dict
NotADict == "not_a_dict"

\* a legacy block that the dict does not hold
AbsentBlock == [reason |-> Absent]

HasBlock(b) == b.reason # Absent

\* metrics['sustained'] when it is a dict; formants_sustained is given by its
\* kind ("absent", "not_a_dict", "dict") and, for a dict, its 'reason'
SustainedDict(fs_kind, fs_reason) ==
    [kind |-> "dict",
     fs_kind |-> fs_kind, fs_reason |-> fs_reason,
     formants_low |-> AbsentBlock, formants_high |-> AbsentBlock,
     formant_analysis_reason_low |-> Absent,
     formant_analysis_reason_high |-> Absent,
     formant_analysis_reason_sustained |-> Absent,
     formant_analysis_failed |-> Absent]

\* "{}"
EmptyDict == SustainedDict(Absent, Absent)

\* metrics['sustained'] when the key is missing, or holds no dict
NoSustained(kind) == [EmptyDict EXCEPT !.kind = kind]

\* the 'reason' values a formants_sustained dict may hold
SustainedReasons == {Absent, None, "", "SUCCESS", "Failed to find a stable segment"}

\* the metrics dicts handed to the function
LegacyMetrics ==
    {[sustained |-> s, formants_low |-> AbsentBlock, formants_high |-> AbsentBlock,
      formants_soft |-> AbsentBlock, formants_loud |-> AbsentBlock] :
        s \in {NoSustained(Absent), NoSustained(NotADict),
               SustainedDict(Absent, Absent), SustainedDict(NotADict, Absent)}
              \cup {SustainedDict("dict", r) : r \in SustainedReasons}}

\* an anchor _extract_anchor returned for a task with enough stable frames
GoodAnchor(task_name, fn) ==
    [task |-> task_name, error |-> None, file |-> fn,
     f0_hz |-> 18000, f1_hz |-> 68000, f2_hz |-> 120000, f3_hz |-> 255000,
     b1_hz |-> 9000, b2_hz |-> 11000, b3_hz |-> NaN,
     spl_db |-> 6200, spl_mad_db |-> 100, n_frames |-> 5]

\* the anchors _extract_anchor may return for a task
LegacyAnchors(task_name, fn) ==
    {GoodAnchor(task_name, fn),
     AnchorError(task_name, "no_rows"),
     AnchorError(task_name, "invalid_time_range"),
     AnchorError(task_name, "insufficient_stable_frames")}

\* "x or ''" on a value read with .get(key, ''): a missing key, None and ''
\* all give ''
OrEmpty(x) == IF x = Absent \/ x = None THEN "" ELSE x

\* "'' if reason == 'SUCCESS' else str(reason)"
StatusString(reason) == IF reason = "SUCCESS" THEN "" ELSE reason

\* a failure flag that looks at the two anchors only
AnyReasonLowHigh(low, high, sust) == IF low # "" \/ high # "" THEN "True" ELSE "False"

\* "bool(reason_low or reason_high or reason_sustained)"
AnyReason(low, high, sust) ==
    IF low # "" \/ high # "" \/ sust # "" THEN "True" ELSE "False"

\* the v2 block of lines 606-617 and 618-629: the legacy block without
\* error_details
SemanticBlock(a) ==
    [F1 |-> a.f1_hz, B1 |-> a.b1_hz, F2 |-> a.f2_hz, B2 |-> a.b2_hz,
     F3 |-> a.f3_hz, B3 |-> a.b3_hz,
     f0_mean |-> a.f0_hz, spl_dbA_est |-> a.spl_db,
     source_file |-> a.file,
     reason |-> IF a.error # None THEN a.error ELSE "SUCCESS"]

\* metrics after _ensure_legacy_metrics_structure(metrics, soft_anchor,
\* loud_anchor)
EnsureLegacyMetricsStructure(metrics, soft_anchor, loud_anchor) ==
    LET s0 == IF metrics.sustained.kind = Absent THEN EmptyDict
              ELSE metrics.sustained
        s1 == IF s0.kind # "dict" THEN EmptyDict ELSE s0
        low  == BuildLegacyFormantBlock(soft_anchor)
        high == BuildLegacyFormantBlock(loud_anchor)
        reason_low  == OrEmpty(low.reason)
        reason_high == OrEmpty(high.reason)
        \* setdefault('formants_sustained', {})
        fs_kind == IF s1.fs_kind = Absent THEN "dict" ELSE s1.fs_kind
        sustained_formant_reason ==
            IF fs_kind = "dict" THEN OrEmpty(s1.fs_reason) ELSE ""
        r_low  == StatusString(reason_low)
        r_high == StatusString(reason_high)
        r_sust == StatusString(sustained_formant_reason)
    IN [sustained |->
            [kind |-> "dict", fs_kind |-> fs_kind, fs_reason |-> s1.fs_reason,
             formants_low |-> low, formants_high |-> high,
             formant_analysis_reason_low |-> r_low,
             formant_analysis_reason_high |-> r_high,
             formant_analysis_reason_sustained |-> r_sust,
             formant_analysis_failed |-> AnyReason(r_low, r_high, r_sust)],
        formants_low |-> low, formants_high |-> high,
        formants_soft |-> SemanticBlock(soft_anchor),
        formants_loud |-> SemanticBlock(loud_anchor)]

NoLegacyMetrics == [sustained |-> NoSustained("none")]

LegacyInit ==
    /\ lg_in = NoLegacyMetrics
    /\ lg_soft = [task |-> "none"]
    /\ lg_loud = [task |-> "none"]
    /\ lg_out = NoLegacyMetrics

\* _ensure_legacy_metrics_structure(metrics, soft_anchor, loud_anchor)
CallEnsureLegacy ==
    /\ lg_out = NoLegacyMetrics
    /\ \E metrics \in LegacyMetrics,
          soft_anchor \in LegacyAnchors("soft_a", "4_1.wav"),
          loud_anchor \in LegacyAnchors("loud_a", "4_2.wav") :
        /\ lg_in' = metrics
        /\ lg_soft' = soft_anchor
        /\ lg_loud' = loud_anchor
        /\ lg_out' = EnsureLegacyMetricsStructure(metrics, soft_anchor, loud_anchor)
    /\ UNCHANGED <<qcVars, noteVars, vrpVars, anchorVars>>
    /\ UNCHANGED <<scoreVars, promVars, sessVars, roundVars, repVars>>
    /\ UNCHANGED legacyOthers

---------------------------------------------------------------------------
(* _task_from_s3_key: the task label of a recording's S3 key.  A string is *)
(* the sequence of its characters.                                         *)

Slash == "/"

\* ".wav"
DotWav == <<".", "w", "a", "v">>

\* the first three characters of the file names: "1_1" ... "4_3"
FilePrefixes ==
    {<<d, "_", n>> : d \in {"1", "3", "4"}, n \in {"1", "2", "3", "4", "5"}}

\* the file names of the keys: a numbered recording, "4_10.wav", "x.wav",
\* "4_.wav" and the empty name
FileNames ==
    {p \o DotWav : p \in FilePrefixes}
      \cup {<<"4", "_", "1", "0">> \o DotWav, <<"x">> \o DotWav,
            <<"4", "_">> \o DotWav, <<>>}

\* the directory that holds the file: a step "1" ... "7", "raw", "44" and
\* the empty segment
StepDirs ==
    {<<d>> : d \in {"1", "2", "3", "4", "5", "6", "7"}}
      \cup {<<"r", "a", "w">>, <<"4", "4">>, <<>>}

\* "voice-tests/session-a/raw/" shortened to "x/raw/"
KeyBase == <<"x", Slash, "r", "a", "w", Slash>>

\* the key of a recording: empty, a bare file name, step/file, or
\* base/step/file
KeyOf(form, step, file) ==
    CASE form = "empty" -> <<>>
      [] form = "bare"  -> file
      [] form = "dir"   -> step \o <<Slash>> \o file
      [] OTHER          -> KeyBase \o step \o <<Slash>> \o file

\* s3_key.split('/')
RECURSIVE SplitSlash(_)
SplitSlash(s) ==
    IF Len(s) = 0 THEN <<<<>>>>
    ELSE LET front == SplitSlash(SubSeq(s, 1, Len(s) - 1))
             n == Len(front)
         IN IF s[Len(s)] = Slash THEN Append(front, <<>>)
            ELSE [front EXCEPT ![n] = Append(@, s[Len(s)])]

\* os.path.basename(s3_key): what follows the last slash
Basename(s) == LET parts == SplitSlash(s) IN parts[Len(parts)]

\* a comparison of the whole name where the code compares a prefix
SameName(s, p) == s = p

\* s.startswith(p)
StartsWith(s, p) == Len(s) >= Len(p) /\ SubSeq(s, 1, Len(p)) = p

\* _task_from_s3_key(s3_key)
TaskFromS3Key(s3_key) ==
    IF Len(s3_key) = 0 THEN "unknown"
    ELSE LET parts == SplitSlash(s3_key)
         IN IF Len(parts) < 2 THEN "unknown"   \* parts[-2] raises IndexError
            ELSE LET step_id == parts[Len(parts) - 1]
                     file_name == Basename(s3_key)
                 IN CASE step_id = <<"1">> ->
                           (IF StartsWith(file_name, <<"1", "_", "1">>) THEN "noise"
                            ELSE IF StartsWith(file_name, <<"1", "_", "2">>)
                            THEN "calibration_read"
                            ELSE "step1_other")
                      [] step_id = <<"2">> -> "vowel_mpt"
                      [] step_id = <<"3">> ->
                           (IF StartsWith(file_name, <<"3", "_", "1">>)
                               \/ StartsWith(file_name, <<"3", "_", "2">>)
                            THEN "glide_up"
                            ELSE IF StartsWith(file_name, <<"3", "_", "3">>)
                                    \/ StartsWith(file_name, <<"3", "_", "4">>)
                            THEN "glide_down"
                            ELSE "glide_unknown")
                      [] step_id = <<"4">> ->
                           (IF StartsWith(file_name, <<"4", "_", "1">>) THEN "soft_a"
                            ELSE IF StartsWith(file_name, <<"4", "_", "2">>)
                            THEN "loud_a"
                            ELSE "step4_unmapped")
                      [] step_id = <<"5">> -> "read"
                      [] step_id = <<"6">> -> "free"
                      [] OTHER -> "unknown"

TaskInit ==
    /\ tk_in = [form |-> "none"]
    /\ tk_key = <<>>
    /\ tk_ret = "none"

\* task = _task_from_s3_key(s3_key) for the key of one recording
CallTaskFromS3Key ==
    /\ tk_ret = "none"
    /\ \E form \in {"empty", "bare", "dir", "deep"},
          step \in StepDirs, file \in FileNames :
        /\ form = "empty" => step = <<>> /\ file = <<>>
        /\ form = "bare" => step = <<>>
        /\ tk_in' = [form |-> form, step |-> step, file |-> file]
        /\ tk_key' = KeyOf(form, step, file)
        /\ tk_ret' = TaskFromS3Key(KeyOf(form, step, file))
    /\ UNCHANGED <<qcVars, noteVars, vrpVars, anchorVars>>
    /\ UNCHANGED <<scoreVars, promVars, sessVars, roundVars, repVars>>
    /\ UNCHANGED taskOthers

---------------------------------------------------------------------------
(* analyze_sustained_vowel: the choice of the recording to analyse.        *)
(* Durations are tenths of a second; a path is named by its position in    *)
(* local_paths, 0 stands for None.                                         *)

MaxVowelFiles == 3

\* the paths a caller may hand over: recordings with their voiced and total
\* duration, a silent recording, a file that cannot be decoded, a file
\* without the .wav suffix, a path that does not exist and the empty path
VowelFiles ==
    {[path |-> "wav", exists |-> TRUE, loads |-> TRUE, voiced |-> 20, total |-> 20],
     [path |-> "wav", exists |-> TRUE, loads |-> TRUE, voiced |-> 10, total |-> 40],
     [path |-> "wav", exists |-> TRUE, loads |-> TRUE, voiced |-> 20, total |-> 50],
     [path |-> "wav", exists |-> TRUE, loads |-> TRUE, voiced |-> 0, total |-> 30],
     [path |-> "wav", exists |-> TRUE, loads |-> FALSE, voiced |-> 0, total |-> 0],
     [path |-> "mp3", exists |-> TRUE, loads |-> TRUE, voiced |-> 30, total |-> 30],
     [path |-> "wav", exists |-> FALSE, loads |-> FALSE, voiced |-> 0, total |-> 0],
     [path |-> "", exists |-> FALSE, loads |-> FALSE, voiced |-> 0, total |-> 0]}

\* "not file_path or not os.path.exists(file_path) or not
\* file_path.endswith('.wav')"
Skipped(f) == f.path = "" \/ ~f.exists \/ f.path # "wav"

\* a comparison under which a later file of equal voiced duration wins
AtLeastAsLong(voiced_duration, max_dur) == voiced_duration >= max_dur

\* "voiced_duration > max_voiced_duration"
LongerVoiced(voiced_duration, max_dur) == voiced_duration > max_dur

VowelError(msg) == [error |-> msg, chosen_file |-> 0, mpt_s |-> NaN]

VowelInit ==
    /\ sv_paths = <<>>
    /\ sv_pc = "paths"
    /\ sv_i = 0
    /\ best_file = 0
    /\ max_voiced_duration = -10
    /\ sv_ret = [error |-> "none"]

\* the caller collects one more path of the sustained-vowel step
AddVowelPath ==
    /\ sv_pc = "paths"
    /\ Len(sv_paths) < MaxVowelFiles
    /\ \E f \in VowelFiles : sv_paths' = Append(sv_paths, f)
    /\ UNCHANGED <<sv_pc, sv_i, best_file, max_voiced_duration, sv_ret>>
    /\ UNCHANGED <<qcVars, noteVars, vrpVars, anchorVars>>
    /\ UNCHANGED <<scoreVars, promVars, sessVars, roundVars, repVars>>
    /\ UNCHANGED vowelOthers

\* analyze_sustained_vowel(local_paths) is entered
StartVowel ==
    /\ sv_pc = "paths"
    /\ sv_pc' = "loop"
    /\ UNCHANGED <<sv_paths, sv_i, best_file, max_voiced_duration, sv_ret>>
    /\ UNCHANGED <<qcVars, noteVars, vrpVars, anchorVars>>
    /\ UNCHANGED <<scoreVars, promVars, sessVars, roundVars, repVars>>
    /\ UNCHANGED vowelOthers

\* one iteration of "for file_path in local_paths" (lines 342-355)
VowelLoopStep ==
    /\ sv_pc = "loop"
    /\ sv_i < Len(sv_paths)
    /\ LET f == sv_paths[sv_i + 1]
       IN IF ~Skipped(f) /\ f.loads
             /\ LongerVoiced(f.voiced, max_voiced_duration)
          THEN /\ max_voiced_duration' = f.voiced
               /\ best_file' = sv_i + 1
          ELSE UNCHANGED <<best_file, max_voiced_duration>>
    /\ sv_i' = sv_i + 1
    /\ UNCHANGED <<sv_paths, sv_pc, sv_ret>>
    /\ UNCHANGED <<qcVars, noteVars, vrpVars, anchorVars>>
    /\ UNCHANGED <<scoreVars, promVars, sessVars, roundVars, repVars>>
    /\ UNCHANGED vowelOthers

\* lines 357-401: without a best file the error dict is returned; otherwise
\* the best file is analysed, and the analysis either returns its metrics
\* or raises
VowelReturn ==
    /\ sv_pc = "loop"
    /\ sv_i = Len(sv_paths)
    /\ sv_pc' = "done"
    /\ IF best_file = 0
       THEN sv_ret' = VowelError("No suitable sustained vowel file found for analysis.")
       ELSE \E raised \in BOOLEAN :
               sv_ret' = IF raised
                         THEN VowelError("Analysis failed for the chosen file.")
                         ELSE [error |-> None, chosen_file |-> best_file,
                               mpt_s |-> sv_paths[best_file].voiced]
    /\ UNCHANGED <<sv_paths, sv_i, best_file, max_voiced_duration>>
    /\ UNCHANGED <<qcVars, noteVars, vrpVars, anchorVars>>
    /\ UNCHANGED <<scoreVars, promVars, sessVars, roundVars, repVars>>
    /\ UNCHANGED vowelOthers

---------------------------------------------------------------------------
(* _sort_and_select_notes: the low and the high note of step 4 *)

MaxNotePaths == 3

\* the file names, in Python's string order: '' < 'first.wav' <
\* 'second.wav' < 'third.wav'
NameRank(name) ==
    CASE name = "" -> 0
      [] name = "first.wav" -> 1
      [] name = "second.wav" -> 2
      [] OTHER -> 3

\* a local path: its directory, its base name and the file's creation time;
\* '' is what safe_download returns for a failed download
NotePaths ==
    {[dir |-> d, name |-> n, ctime |-> c] :
        d \in {"/tmp", "/tmp/b"}, n \in {"first.wav", "second.wav", "third.wav"},
        c \in {1, 2}}
      \cup {[dir |-> "", name |-> "", ctime |-> 0]}

\* None where a path is expected
NoPath == [dir |-> None, name |-> None, ctime |-> 0]

\* an order by the files' creation time
CreatedBefore(a, b) == a.ctime < b.ctime

\* key=os.path.basename: a sorts before b
NameBefore(a, b) == NameRank(a.name) < NameRank(b.name)

\* note_paths.sort(key=os.path.basename) (stable)
RECURSIVE InsertByName(_, _)
InsertByName(x, s) ==
    IF Len(s) = 0 THEN <<x>>
    ELSE IF NameBefore(x, Head(s)) THEN <<x>> \o s
    ELSE <<Head(s)>> \o InsertByName(x, Tail(s))

RECURSIVE SortByName(_)
SortByName(s) ==
    IF Len(s) = 0 THEN <<>>
    ELSE InsertByName(s[Len(s)], SortByName(SubSeq(s, 1, Len(s) - 1)))

\* the pair (low_note, high_note) returned by _sort_and_select_notes
SortAndSelectNotes(note_paths) ==
    IF Len(note_paths) = 0 THEN <<NoPath, NoPath>>
    ELSE LET sorted == SortByName(note_paths)
             high_note == sorted[1]
             low_note == IF Len(sorted) > 1 THEN sorted[2] ELSE NoPath
         IN <<low_note, high_note>>

NotesInit ==
    /\ np_paths = <<>>
    /\ np_pc = "paths"
    /\ np_ret = <<NoPath, NoPath>>

\* one more recording of step 4 is downloaded
AddNotePath ==
    /\ np_pc = "paths"
    /\ Len(np_paths) < MaxNotePaths
    /\ \E f \in NotePaths : np_paths' = Append(np_paths, f)
    /\ UNCHANGED <<np_pc, np_ret>>
    /\ UNCHANGED <<qcVars, noteVars, vrpVars, anchorVars>>
    /\ UNCHANGED <<scoreVars, promVars, sessVars, roundVars, repVars>>
    /\ UNCHANGED notesOthers

\* low_note_file, high_note_file = _sort_and_select_notes(note_local_paths)
CallSortAndSelect ==
    /\ np_pc = "paths"
    /\ np_pc' = "done"
    /\ np_ret' = SortAndSelectNotes(np_paths)
    /\ UNCHANGED np_paths
    /\ UNCHANGED <<qcVars, noteVars, vrpVars, anchorVars>>
    /\ UNCHANGED <<scoreVars, promVars, sessVars, roundVars, repVars>>
    /\ UNCHANGED notesOthers

---------------------------------------------------------------------------
(* analyze_note_file_robust: one frame through the scorer and the          *)
(* ordering/spacing validator (lines 221-250)                              *)

\* what Praat may deliver for the three formants of a frame that passes the
\* gating: each of F1, F2, F3 absent or at one of two frequencies, B1 and B2
\* below or above the ceiling
ValidatorCands ==
    {[GoodCand EXCEPT !.f1 = f1, !.b1 = IF f1 = NaN THEN NaN ELSE b1,
                      !.f2 = f2, !.b2 = IF f2 = NaN THEN NaN ELSE b2,
                      !.f3 = f3, !.b3 = IF f3 = NaN THEN NaN ELSE 200,
                      !.prom1 = p, !.prom2 = p] :
        f1 \in {NaN, 700, 900}, b1 \in {90, 750},
        f2 \in {NaN, 800, 1200}, b2 \in {110, 750},
        f3 \in {NaN, 900, 2500}, p \in {80, 40}}

ValidInit ==
    /\ vf_cand = [f0 |-> NaN]
    /\ vf_scored = <<NaN, NaN>>
    /\ vf_frame = NoFrame

\* the body of the frame loop for one frame: the scorer is called for the
\* formants present, the penalties are applied and the frame is appended
ValidateFrame ==
    /\ vf_frame = NoFrame
    /\ \E c \in ValidatorCands :
        /\ ~Gated(c)
        /\ vf_cand' = c
        /\ vf_scored' = Scored(c)
        /\ vf_frame' = BuildFrame(c, 0)
    /\ UNCHANGED <<qcVars, noteVars, vrpVars, anchorVars>>
    /\ UNCHANGED <<scoreVars, promVars, sessVars, roundVars, repVars>>
    /\ UNCHANGED validOthers

---------------------------------------------------------------------------
(* handler.py: the session API and the asynchronous analysis task *)

SessionIds == {"s1"}

UserIds == {"u1", "u2"}

\* extract_user_info(event)['userId']: a user's sub, or None
Callers == UserIds \cup {None}

\* invocations Lambda holds at most at a time
MaxQueued == 1

\* resp.get('Item') of a sessionId the table has no item for
NoItem ==
    [userId |-> Absent, status |-> Absent, metrics |-> Absent,
     charts |-> Absent, reportPdf |-> Absent, errorMessage |-> Absent]

\* the item handle_create_session puts
NewItem(user_id) == [NoItem EXCEPT !.userId = user_id, !.status = "created"]

\* "SET #st = :st, updatedAt = :u" with :st = 'processing'; update_item
\* sets the attributes on the item of the key and makes the item when the
\* table has none
SetProcessing(item) == [item EXCEPT !.status = "processing"]

\* "SET #st=:st, #mt=:m, #ch=:c, reportPdf=:r, updatedAt=:u"
SetDone(item) ==
    [item EXCEPT !.status = "done", !.metrics = "metrics",
                 !.charts = "charts", !.reportPdf = "report.pdf"]

\* "SET #st=:st, errorMessage=:e, updatedAt=:u" with :e = str(e)
SetFailed(item, e) == [item EXCEPT !.status = "failed", !.errorMessage = e]

Pending == "pending"

NoRequest == [op |-> None, caller |-> None, sessionId |-> None, code |-> None]

\* the routes of handler()
Ops == {"POST /sessions", "POST /uploads", "POST /analyze", "GET /results"}

Idle == [pc |-> "idle", sessionId |-> None, userId |-> None, raised |-> {}]

\* every try block of the task handed to the outermost handler only
CatchOutermost(site) ==
    IF site = "update_failed" THEN "raised" ELSE "update_failed"

\* where control goes when the call at site raises: the except clause of
\* line 687 for the analysis and the 'done' update, the one of line 684 for
\* the event, the one of line 696 for the 'failed' update; the last two log
\* and fall through to the end of the function
Catch(site) ==
    CASE site \in {"analysis", "update_done"} -> "update_failed"
      [] site = "put_event" -> "returned"
      [] site = "update_failed" -> "returned"

ApiInit ==
    /\ table = [s \in SessionIds |-> NoItem]
    /\ events_table = {}
    /\ invocations = <<>>
    /\ analyze_task = Idle
    /\ api = NoRequest

Respond(code) == api' = [api EXCEPT !.code = code]

Serving(op) == api.code = Pending /\ api.op = op

\* API Gateway hands handler() a request: a route, the caller the token
\* names, and the sessionId of the body or path (None: missing)
ApiRequest ==
    /\ api.code # Pending
    /\ \E op \in Ops, c \in Callers, s \in SessionIds \cup {None} :
          api' = [op |-> op, caller |-> c,
                  sessionId |-> IF op = "POST /sessions" THEN None ELSE s,
                  code |-> Pending]
    /\ UNCHANGED <<table, events_table, invocations, analyze_task>>
    /\ UNCHANGED <<qcVars, noteVars, vrpVars, anchorVars>>
    /\ UNCHANGED <<scoreVars, promVars, sessVars, roundVars, repVars>>
    /\ UNCHANGED apiOthers

HandleCreateSession ==
    /\ Serving("POST /sessions")
    /\ IF api.caller = None
       THEN Respond("401") /\ UNCHANGED table
       ELSE \/ \E s \in SessionIds :
                 /\ table[s] = NoItem
                 /\ table' = [table EXCEPT ![s] = NewItem(api.caller)]
                 /\ Respond("201")
            \/ Respond("500") /\ UNCHANGED table
    /\ UNCHANGED <<events_table, invocations, analyze_task>>
    /\ UNCHANGED <<qcVars, noteVars, vrpVars, anchorVars>>
    /\ UNCHANGED <<scoreVars, promVars, sessVars, roundVars, repVars>>
    /\ UNCHANGED apiOthers

\* "if not item or item.get('userId') != user_id"
NotOwner(item, user_id) == item = NoItem \/ item.userId # user_id

HandleGetUploadUrl ==
    /\ Serving("POST /uploads")
    /\ IF api.caller = None THEN Respond("401")
       ELSE IF api.sessionId = None THEN Respond("400")
       ELSE \/ IF NotOwner(table[api.sessionId], api.caller)
               THEN Respond("403") ELSE Respond("200")
            \/ Respond("500")
    /\ UNCHANGED <<table, events_table, invocations, analyze_task>>
    /\ UNCHANGED <<qcVars, noteVars, vrpVars, anchorVars>>
    /\ UNCHANGED <<scoreVars, promVars, sessVars, roundVars, repVars>>
    /\ UNCHANGED apiOthers

HandleGetResults ==
    /\ Serving("GET /results")
    /\ IF api.caller = None THEN Respond("401")
       ELSE IF api.sessionId = None THEN Respond("400")
       ELSE \/ IF NotOwner(table[api.sessionId], api.caller)
               THEN Respond("404") ELSE Respond("200")
            \/ Respond("500")
    /\ UNCHANGED <<table, events_table, invocations, analyze_task>>
    /\ UNCHANGED <<qcVars, noteVars, vrpVars, anchorVars>>
    /\ UNCHANGED <<scoreVars, promVars, sessVars, roundVars, repVars>>
    /\ UNCHANGED apiOthers

\* the payload of the asynchronous invocation
AsyncPayload == [sessionId |-> api.sessionId, userId |-> api.caller]

HandleAnalyzeTrigger ==
    /\ Serving("POST /analyze")
    /\ Len(invocations) < MaxQueued
    /\ IF api.sessionId = None
       THEN Respond("400") /\ UNCHANGED <<table, invocations>>
       ELSE \/ \* update_item raises
               Respond("500") /\ UNCHANGED <<table, invocations>>
            \/ \* update_item succeeds, invoke raises
               /\ table' = [table EXCEPT
                               ![api.sessionId] = SetProcessing(@)]
               /\ Respond("500")
               /\ UNCHANGED invocations
            \/ \* both succeed
               /\ table' = [table EXCEPT
                               ![api.sessionId] = SetProcessing(@)]
               /\ invocations' = Append(invocations, AsyncPayload)
               /\ Respond("202")
    /\ UNCHANGED <<events_table, analyze_task>>
    /\ UNCHANGED <<qcVars, noteVars, vrpVars, anchorVars>>
    /\ UNCHANGED <<scoreVars, promVars, sessVars, roundVars, repVars>>
    /\ UNCHANGED apiOthers

Without(s, i) == SubSeq(s, 1, i - 1) \o SubSeq(s, i + 1, Len(s))

StartTask(payload) ==
    analyze_task' = [pc |-> "analysis", sessionId |-> payload.sessionId,
                     userId |-> payload.userId, raised |-> {}]

\* Lambda runs handler() on one of the events it holds; the event has a
\* 'task' of 'analyze', so handler() calls handle_analyze_task
DeliverTask ==
    /\ analyze_task.pc = "idle"
    /\ \E i \in 1..Len(invocations) :
          /\ StartTask(invocations[i])
          /\ invocations' = Without(invocations, i)
    /\ UNCHANGED <<table, events_table, api>>
    /\ UNCHANGED <<qcVars, noteVars, vrpVars, anchorVars>>
    /\ UNCHANGED <<scoreVars, promVars, sessVars, roundVars, repVars>>
    /\ UNCHANGED apiOthers

\* handle_analyze_task called on an event of any session and user
InvokeAnalyzeTask ==
    /\ analyze_task.pc = "idle"
    /\ \E s \in SessionIds, u \in Callers :
          StartTask([sessionId |-> s, userId |-> u])
    /\ UNCHANGED <<table, events_table, invocations, api>>
    /\ UNCHANGED <<qcVars, noteVars, vrpVars, anchorVars>>
    /\ UNCHANGED <<scoreVars, promVars, sessVars, roundVars, repVars>>
    /\ UNCHANGED apiOthers

Raise(site) ==
    analyze_task' = [analyze_task EXCEPT !.pc = Catch(site),
                                         !.raised = @ \cup {site}]

Goto(pc) == analyze_task' = [analyze_task EXCEPT !.pc = pc]

\* line 610: perform_full_analysis returns or raises
PerformFullAnalysis ==
    /\ analyze_task.pc = "analysis"
    /\ Goto("update_done") \/ Raise("analysis")
    /\ UNCHANGED <<table, events_table, invocations, api>>
    /\ UNCHANGED <<qcVars, noteVars, vrpVars, anchorVars>>
    /\ UNCHANGED <<scoreVars, promVars, sessVars, roundVars, repVars>>
    /\ UNCHANGED apiOthers

\* lines 617-630: the update that stores the results, then
\* "if user_id and get_events_table()"
UpdateDone ==
    /\ analyze_task.pc = "update_done"
    /\ \/ /\ table' = [table EXCEPT ![analyze_task.sessionId] = SetDone(@)]
          /\ Goto(IF analyze_task.userId # None
                  THEN "put_event" ELSE "returned")
       \/ Raise("update_done") /\ UNCHANGED table
    /\ UNCHANGED <<events_table, invocations, api>>
    /\ UNCHANGED <<qcVars, noteVars, vrpVars, anchorVars>>
    /\ UNCHANGED <<scoreVars, promVars, sessVars, roundVars, repVars>>
    /\ UNCHANGED apiOthers

\* lines 631-685: the self_test event
PutEvent ==
    /\ analyze_task.pc = "put_event"
    /\ \/ /\ events_table' = events_table \cup
                 {[userId |-> analyze_task.userId,
                   sessionId |-> analyze_task.sessionId]}
          /\ Goto("returned")
       \/ Raise("put_event") /\ UNCHANGED events_table
    /\ UNCHANGED <<table, invocations, api>>
    /\ UNCHANGED <<qcVars, noteVars, vrpVars, anchorVars>>
    /\ UNCHANGED <<scoreVars, promVars, sessVars, roundVars, repVars>>
    /\ UNCHANGED apiOthers

\* the exception the clause of line 687 holds
CaughtError == CHOOSE e \in {"analysis", "update_done"} : e \in analyze_task.raised

\* lines 687-697: the failure branch
UpdateFailed ==
    /\ analyze_task.pc = "update_failed"
    /\ \/ /\ table' = [table EXCEPT
                          ![analyze_task.sessionId] = SetFailed(@, CaughtError)]
          /\ Goto("returned")
       \/ Raise("update_failed") /\ UNCHANGED table
    /\ UNCHANGED <<events_table, invocations, api>>
    /\ UNCHANGED <<qcVars, noteVars, vrpVars, anchorVars>>
    /\ UNCHANGED <<scoreVars, promVars, sessVars, roundVars, repVars>>
    /\ UNCHANGED apiOthers

\* handler() lines 711-712: the task is over, the invocation ends
TaskReturn ==
    /\ analyze_task.pc = "returned"
    /\ analyze_task' = Idle
    /\ UNCHANGED <<table, events_table, invocations, api>>
    /\ UNCHANGED <<qcVars, noteVars, vrpVars, anchorVars>>
    /\ UNCHANGED <<scoreVars, promVars, sessVars, roundVars, repVars>>
    /\ UNCHANGED apiOthers

\* the initial values of the variables of the remaining functions
FnInit == LegacyInit /\ TaskInit /\ VowelInit /\ NotesInit /\ ValidInit

SvcInit == FnInit /\ ApiInit

\* the initial values of the variables added after the first four groups
ExtInit == ScoreInit /\ PromInit /\ SessInit /\ RoundInit /\ RepInit /\ SvcInit

---------------------------------------------------------------------------
(* Specifications *)

\* one recording through the frame QC gate
InitQC == QcInit /\ NoteInit /\ VrpInit /\ AnchorInit /\ ExtInit

NextQC == ExtractFrame

SpecQC == InitQC /\ [][NextQC]_vars

\* one note file through collection, validation, window scan and summary
InitNote == QcInit /\ NoteInit /\ VrpInit /\ AnchorInit /\ ExtInit

NextNote == CollectFrame \/ FinishCollect \/ ScanStep \/ Summarise

SpecNote == InitNote /\ [][NextNote]_vars

\* the glide rows through the VRP binner
NextVrp == AddGlideRow \/ RunComputeVrp

SpecVrp == InitQC /\ [][NextVrp]_vars

\* the rows of a task through the anchor extractor, the legacy block and
\* the DynamoDB conversion
NextAnchor == AddAnchorRow \/ AddOtherRow \/ RunExtractAnchor

SpecAnchor == InitQC /\ [][NextAnchor]_vars

\* the window scan and summary on a list of scored frames
MaxWinFrames == 10

\* at most this many frames of a list differ from the regular kind
MaxOddFrames == 3

\* scored frames as the collection loop leaves them: a frame with both
\* formants at confidence 0.6, one whose F1 confidence is one unit lower, and
\* one without F1 and F2 (no confidence keys)
WinKinds == <<
    [gap |-> 30, f1 |-> 700, f2 |-> 1200, conf1 |-> 3 * (ConfOne \div 5),
     conf2 |-> 3 * (ConfOne \div 5)],
    [gap |-> 10, f1 |-> 720, f2 |-> 1250, conf1 |-> 3 * (ConfOne \div 5) - 1,
     conf2 |-> 3 * (ConfOne \div 5)],
    [gap |-> 50, f1 |-> NaN, f2 |-> NaN, conf1 |-> NaN, conf2 |-> NaN] >>

WinFrame(kind, t) ==
    [time |-> t, f0 |-> 150, hnr |-> 15,
     f1 |-> kind.f1, b1 |-> IF IsFinite(kind.f1) THEN 90 ELSE NaN,
     conf1 |-> kind.conf1, prom1_db |-> IF IsFinite(kind.f1) THEN 50 ELSE NaN,
     f2 |-> kind.f2, b2 |-> IF IsFinite(kind.f2) THEN 110 ELSE NaN,
     conf2 |-> kind.conf2, prom2_db |-> IF IsFinite(kind.f2) THEN 50 ELSE NaN,
     f3 |-> 2500, b3 |-> 200]

\* the frames of the kinds ks, each at its gap after the one before
RECURSIVE WinFrames(_)
WinFrames(ks) ==
    IF Len(ks) = 0 THEN <<>>
    ELSE LET front == WinFrames(SubSeq(ks, 1, Len(ks) - 1))
             t0    == IF Len(front) = 0 THEN 0 ELSE front[Len(front)].time
             kind  == WinKinds[ks[Len(ks)]]
         IN Append(front, WinFrame(kind, t0 + kind.gap))

WinNoteInit ==
    /\ \E n \in 1..MaxWinFrames :
        \E ks \in [1..n -> 1..Len(WinKinds)] :
            /\ Cardinality({k \in 1..n : ks[k] # 1}) <= MaxOddFrames
            /\ all_frames = WinFrames(ks)
            /\ note_k = n
            /\ note_t = all_frames[n].time
    /\ npc = "scan"
    /\ cands = <<>>
    /\ win_i = 0
    /\ win_j = 0
    /\ best_sum = -ConfOne
    /\ best_i = 0
    /\ best_j = 0
    /\ result = [status |-> "none"]

InitWin == QcInit /\ VrpInit /\ AnchorInit /\ ExtInit /\ WinNoteInit

NextWin == ScanStep \/ Summarise

SpecWin == InitWin /\ [][NextWin]_vars

\* one candidate through the confidence scorer and the frame validator
NextScore == CallConfidence

SpecScore == InitQC /\ [][NextScore]_vars

\* an envelope and one prominence query on it
NextProm == AddEnvBin \/ CallPeakProminence

SpecProm == InitQC /\ [][NextProm]_vars

\* the recordings of a session scanned in any order and interleaving
NextSess == StartAnyScan \/ ScanAnyFrame

SpecSess == InitQC /\ [][NextSess]_vars

\* a note of uniform frames through collection, window
\* scan and summary
InitRound ==
    /\ QcInit /\ NoteInit /\ VrpInit /\ AnchorInit
    /\ ScoreInit /\ PromInit /\ SessInit /\ RepInit /\ SvcInit
    /\ rt_n \in RoundSizes

NextRound == CollectUniformFrame \/ FinishCollect \/ ScanStep \/ Summarise

SpecRound == InitRound /\ [][NextRound]_vars

\* one component invoked, then invoked again on the same input
InitRepeat ==
    /\ QcInit /\ VrpInit /\ AnchorInit
    /\ ScoreInit /\ PromInit /\ SessInit /\ RoundInit /\ SvcInit
    /\ rp_out = <<>>
    /\ \/ rp_comp = "window" /\ WinNoteInit
       \/ rp_comp \in Components \ {"window"} /\ NoteInit

NextRepeat ==
    \/ FirstConfidence \/ CallConfidenceAgain
    \/ FirstScanStep \/ FirstSummarise \/ ScanAgain
    \/ FirstGlideRow \/ FirstComputeVrp \/ RunComputeVrpAgain
    \/ FirstAnchorRow \/ FirstOtherRow \/ FirstExtractAnchor
    \/ RunExtractAnchorAgain

SpecRepeat == InitRepeat /\ [][NextRepeat]_vars

\* one call of _ensure_legacy_metrics_structure
NextLegacy == CallEnsureLegacy

SpecLegacy == InitQC /\ [][NextLegacy]_vars

\* one call of _task_from_s3_key
NextTask == CallTaskFromS3Key

SpecTask == InitQC /\ [][NextTask]_vars

\* the paths of the sustained vowel are collected and analysed
NextVowel == AddVowelPath \/ StartVowel \/ VowelLoopStep \/ VowelReturn

SpecVowel == InitQC /\ [][NextVowel]_vars

\* the recordings of step 4 are collected, sorted and selected
NextNotes == AddNotePath \/ CallSortAndSelect

SpecNotes == InitQC /\ [][NextNotes]_vars

\* one frame through the scorer and the ordering/spacing validator
NextValid == ValidateFrame

SpecValid == InitQC /\ [][NextValid]_vars

\* what an earlier invocation stored
Earlier == "earlier"

\* the items a session can have when a task event arrives
StoredItems ==
    {NoItem}
    \cup {[NewItem(u) EXCEPT !.status = st] :
              u \in UserIds, st \in {"created", "processing"}}
    \cup {[NewItem(u) EXCEPT !.status = "done", !.metrics = Earlier,
                             !.charts = Earlier, !.reportPdf = Earlier] :
              u \in UserIds}
    \cup {[NewItem(u) EXCEPT !.status = "failed", !.errorMessage = Earlier] :
              u \in UserIds}

\* one call of handle_analyze_task on a table in any state
AnalyzeInit ==
    /\ table \in [SessionIds -> StoredItems]
    /\ events_table = {}
    /\ invocations = <<>>
    /\ analyze_task = Idle
    /\ api = NoRequest

InitAnalyze ==
    /\ QcInit /\ NoteInit /\ VrpInit /\ AnchorInit
    /\ ScoreInit /\ PromInit /\ SessInit /\ RoundInit /\ RepInit
    /\ FnInit /\ AnalyzeInit

NextAnalyze ==
    \/ InvokeAnalyzeTask
    \/ PerformFullAnalysis
    \/ UpdateDone
    \/ PutEvent
    \/ UpdateFailed

SpecAnalyze == InitAnalyze /\ [][NextAnalyze]_vars

\* the API and the task it starts
NextApi ==
    \/ ApiRequest
    \/ HandleCreateSession
    \/ HandleGetUploadUrl
    \/ HandleAnalyzeTrigger
    \/ HandleGetResults
    \/ DeliverTask
    \/ PerformFullAnalysis
    \/ UpdateDone
    \/ PutEvent
    \/ UpdateFailed
    \/ TaskReturn

SpecApi == InitQC /\ [][NextApi]_vars

\* Lambda serves every request it was handed, runs every event it holds and
\* runs an invocation to its end; nothing obliges a client to send requests
HandleApi ==
    \/ HandleCreateSession
    \/ HandleGetUploadUrl
    \/ HandleAnalyzeTrigger
    \/ HandleGetResults

TaskStep ==
    \/ PerformFullAnalysis
    \/ UpdateDone
    \/ PutEvent
    \/ UpdateFailed
    \/ TaskReturn

SpecApiFair ==
    /\ SpecApi
    /\ WF_vars(HandleApi)
    /\ WF_vars(DeliverTask)
    /\ WF_vars(TaskStep)

---------------------------------------------------------------------------
(* Properties of the frame QC gate *)

\* the last finite value of key in rs[1..k], NaN when there is none
RECURSIVE LastAccepted(_, _, _)
LastAccepted(rs, k, key) ==
    IF k = 0 THEN NaN
    ELSE IF IsFinite(rs[k][key]) THEN rs[k][key]
    ELSE LastAccepted(rs, k - 1, key)

RawF1s == [k \in 1..Len(raw) |-> raw[k].f1]

\* C1: in the frame scan an F1 (F2) more than 300 Hz (500 Hz) away from the
\* last accepted F1 (F2) is nulled, the reference is always the last
\* accepted value and never a nulled one, and for the F1 inputs
\* [700, 700, 1400, 702] the third F1 is nulled and the fourth (702) is kept.
C1_JumpGate ==
    /\ \A k \in 1..Len(rows) :
          LET a1 == LastAccepted(rows, k - 1, "f1_hz")
              a2 == LastAccepted(rows, k - 1, "f2_hz")
          IN /\ (IsFinite(raw[k].f1) /\ IsFinite(a1) /\ Abs(raw[k].f1 - a1) > 300)
                   => rows[k].f1_hz = NaN
             /\ (IsFinite(raw[k].f2) /\ IsFinite(a2) /\ Abs(raw[k].f2 - a2) > 500)
                   => rows[k].f2_hz = NaN
    /\ prev_f1 = LastAccepted(rows, Len(rows), "f1_hz")
    /\ prev_f2 = LastAccepted(rows, Len(rows), "f2_hz")
    /\ (Len(raw) = 4 /\ RawF1s = <<700, 700, 1400, 702>>)
          => (rows[3].f1_hz = NaN /\ rows[4].f1_hz = 702)

C1_Witness ==
    /\ Len(rows) = 4
    /\ RawF1s = <<700, 700, 1400, 702>>
    /\ rows[3].f1_hz = NaN
    /\ rows[4].f1_hz = 702
    /\ prev_f1 = 702

---------------------------------------------------------------------------
(* Properties of the window selector *)

NFrames == Len(all_frames)

\* j(i): the first 0-based index after i whose time exceeds time[i] + 250 ms
\* (the number of frames when there is none)
JOf(i) ==
    CHOOSE j \in (i + 1)..NFrames :
        /\ \A m \in (i + 1)..j : all_frames[m].time - all_frames[i + 1].time <= 250
        /\ j = NFrames \/ all_frames[j + 1].time - all_frames[i + 1].time > 250

WinScore(i) == ScoreSum(Slice(all_frames, i, JOf(i)))

Eligible(i) == JOf(i) - i >= 8

EligibleSet == {i \in 0..(NFrames - 1) : Eligible(i)}

Summarised == npc = "done" /\ result.status = "ok"

\* C2: when no candidate window holds at least 8 frames the summary is taken
\* over the full list of collected frames, and the frame set behind the
\* medians is never empty.
C2_Fallback ==
    Summarised =>
        /\ EligibleSet = {} =>
              /\ result.best_window_frames = all_frames
              /\ result.F1 = MedianOrZero(all_frames, "f1")
              /\ result.F2 = MedianOrZero(all_frames, "f2")
              /\ result.f0_mean = MedianOrZero(all_frames, "f0")
        /\ Len(result.best_window_frames) > 0

C2_Witness ==
    /\ Summarised
    /\ NFrames >= 8
    /\ EligibleSet = {}
    /\ result.best_window_frames = all_frames

\* C3: at every step of the scan the recorded best window is the initial
\* empty placeholder or holds at least 8 frames.
C3_BestEligible ==
    \/ best_i = 0 /\ best_j = 0 /\ best_sum = -ConfOne
    \/ best_j - best_i >= 8

C3_Witness ==
    /\ npc = "scan"
    /\ best_i > 0
    /\ best_j - best_i >= 9

\* C4 as stated: the chosen window has the highest score among the eligible
\* candidate windows and, among those of equal highest score, the most frames.
C4_HighestScore ==
    (Summarised /\ EligibleSet # {}) =>
        /\ \E i \in EligibleSet :
              result.best_window_frames = Slice(all_frames, i, JOf(i))
        /\ \A i \in EligibleSet :
              /\ WinScore(i) <= ScoreSum(result.best_window_frames)
              /\ WinScore(i) = ScoreSum(result.best_window_frames)
                    => JOf(i) - i <= Len(result.best_window_frames)

\* the largest difference math.isclose accepts between scores up to m
CloseTol(m) == m \div 1000000000

MaxEligibleScore ==
    CHOOSE m \in {WinScore(i) : i \in EligibleSet} :
        \A i \in EligibleSet : WinScore(i) <= m

\* C4 (amended): the chosen window is an eligible candidate window whose
\* score is the highest up to the near-tie tolerance of math.isclose: no
\* eligible window scanned after it has a higher score or a near-tied score
\* with more frames, and an eligible window scanned k windows before it
\* exceeds its score by at most k times that tolerance.
C4_HighestUpToNearTie ==
    (Summarised /\ EligibleSet # {}) =>
        /\ best_i \in EligibleSet
        /\ best_j = JOf(best_i)
        /\ best_sum = WinScore(best_i)
        /\ result.best_window_frames = Slice(all_frames, best_i, best_j)
        /\ \A i \in EligibleSet :
              /\ i > best_i =>
                    /\ WinScore(i) <= best_sum
                    /\ ~(IsClose(WinScore(i), best_sum)
                          /\ JOf(i) - i > best_j - best_i)
              /\ i < best_i =>
                    WinScore(i) - best_sum <= (best_i - i) * CloseTol(MaxEligibleScore)

\* a near-tied window with more frames has displaced a higher-scoring one
C4_Witness ==
    /\ Summarised
    /\ \E i \in EligibleSet :
          /\ i < best_i
          /\ WinScore(i) > best_sum
          /\ JOf(i) - i < best_j - best_i

---------------------------------------------------------------------------
(* Properties of the ordering/spacing validator *)

\* C5: a frame with both an F1 and an F2 where F2 - F1 < 150 Hz (F2 <= F1
\* included) stores conf1 and conf2 of at most 20% of the scorer's values.
C5_SpacingPenalty ==
    \A k \in 1..Len(all_frames) :
        LET fr == all_frames[k]
        IN (IsFinite(fr.f1) /\ IsFinite(fr.f2) /\ fr.f2 - fr.f1 < 150) =>
              /\ IsFinite(fr.conf1) /\ 5 * fr.conf1 <= cands[k][1]
              /\ IsFinite(fr.conf2) /\ 5 * fr.conf2 <= cands[k][2]

C5_Witness ==
    \E k \in 1..Len(all_frames) :
        LET fr == all_frames[k]
        IN /\ IsFinite(fr.f1) /\ IsFinite(fr.f2)
           /\ fr.f1 < fr.f2 /\ fr.f2 - fr.f1 < 150
           /\ cands[k][1] > 0 /\ cands[k][2] > 0
           /\ 5 * fr.conf1 = cands[k][1]

---------------------------------------------------------------------------
(* Properties of the VRP binner *)

VrpDone == vrp.status = "ok"

\* the rows that reach the binner: finite f0 and loudness and, when any row
\* has a voicing probability, one of at least 0.60
GlideValid(k) ==
    /\ IsFinite(glide_rows[k].f0_hz)
    /\ IsFinite(glide_rows[k].spl_db)
    /\ (\E m \in 1..Len(glide_rows) : IsFinite(glide_rows[m].voicing_prob))
          => (IsFinite(glide_rows[k].voicing_prob) /\ glide_rows[k].voicing_prob >= 60)

\* the number of valid rows whose f0 lies in the semitone n (bin edges of
\* SEMI_TABLE)
ValidInSemi(n) ==
    Cardinality({k \in 1..Len(glide_rows) :
                    GlideValid(k) /\ SemiOf(glide_rows[k].f0_hz) = n})

\* C6: every bin returned by _compute_vrp has count >= 5 and comes from a
\* semitone with at least 5 valid frames; no semitone appears twice.
C6_BinFloor ==
    VrpDone =>
        \A b \in 1..Len(vrp.bins) :
            /\ vrp.bins[b].count >= 5
            /\ ValidInSemi(vrp.bins[b].semi) >= 5
            /\ vrp.bins[b].count <= ValidInSemi(vrp.bins[b].semi)
            /\ \A c \in 1..Len(vrp.bins) : c # b => vrp.bins[c].semi # vrp.bins[b].semi

\* a bin that the MAD filter reduced to exactly 5 samples
C6_Witness ==
    /\ VrpDone
    /\ \E b \in 1..Len(vrp.bins) :
          /\ vrp.bins[b].count = 5
          /\ ValidInSemi(vrp.bins[b].semi) = 6

ScenarioRows == <<GlideKinds[1], GlideKinds[2], GlideKinds[3]>>

ScenarioTwice == <<GlideKinds[1], GlideKinds[1], GlideKinds[2], GlideKinds[2],
                   GlideKinds[3], GlideKinds[3]>>

HasBin57Mean62 ==
    \E b \in 1..Len(vrp.bins) :
        vrp.bins[b].semi = 57 /\ vrp.bins[b].spl_mean = 6200

\* C7 as stated: for the three frames (219 Hz, 60 dB), (220 Hz, 62 dB) and
\* (221 Hz, 64 dB) all frames fall in semitone 57 and the output holds a
\* bin 57 with spl_mean 62.
C7_ThreeFramesBin ==
    (VrpDone /\ glide_rows = ScenarioRows) =>
        /\ vrp_loc.semi_i = <<57, 57, 57>>
        /\ HasBin57Mean62

\* C7 (amended): the three frames all fall in semitone 57, but three samples
\* are below the bin floor and the bin list is empty; once the semitone
\* holds at least 5 such samples (each frame twice) the output is the single
\* bin 57 with spl_mean 62.
C7_ScenarioBin ==
    /\ (VrpDone /\ glide_rows = ScenarioRows) =>
          /\ vrp_loc.semi_i = <<57, 57, 57>>
          /\ vrp.bins = <<>>
    /\ (VrpDone /\ glide_rows = ScenarioTwice) =>
          /\ \A k \in 1..6 : vrp_loc.semi_i[k] = 57
          /\ Len(vrp.bins) = 1
          /\ HasBin57Mean62
          /\ vrp.bins[1].count = 6

C7_Witness ==
    /\ VrpDone
    /\ glide_rows = ScenarioTwice
    /\ HasBin57Mean62

---------------------------------------------------------------------------
(* Properties of the anchor extractor and of the reported values *)

Anchored == apc # "rows"

\* C8: a frame without a finite f0 takes part in no aggregation: it is
\* masked out of the VRP bins and percentiles, it is not among the stable
\* frames an anchor counts and takes its medians over, and it is not among
\* the frames of the window selector.
C8_UnvoicedExcluded ==
    /\ vrp.status # "none" =>
          \A k \in 1..Len(vrp_loc.valid) :
              ~IsFinite(glide_rows[k].f0_hz) => ~vrp_loc.valid[k]
    /\ (Anchored /\ anchor.error = None) =>
          /\ \A k \in 1..Len(stable) : IsFinite(arows[stable[k]].f0_hz)
          /\ anchor.n_frames =
                Cardinality({k \in 1..Len(stable) : IsFinite(arows[stable[k]].f0_hz)})
    /\ \A k \in 1..Len(all_frames) :
          IsFinite(all_frames[k].f0) /\ all_frames[k].f0 > 0

\* the file the anchor is taken from: the file of the task's first row, or
\* with max_voiced the file with the most voiced rows
TaskRows(task_name) == {k \in 1..Len(arows) : arows[k].task = task_name}

FirstTaskRow(task_name) ==
    CHOOSE k \in TaskRows(task_name) : \A m \in TaskRows(task_name) : k <= m

VoicedCount(task_name, fn) ==
    Cardinality({k \in TaskRows(task_name) : arows[k].file = fn /\ IsVoiced(arows[k])})

TotalCount(task_name, fn) ==
    Cardinality({k \in TaskRows(task_name) : arows[k].file = fn})

IsChosenFile(task_name, fn) ==
    IF file_sel = "max_voiced"
    THEN /\ TotalCount(task_name, fn) > 0
         /\ \A k \in TaskRows(task_name) :
               LET g == arows[k].file
               IN g # fn =>
                    \/ VoicedCount(task_name, fn) > VoicedCount(task_name, g)
                    \/ /\ VoicedCount(task_name, fn) = VoicedCount(task_name, g)
                       /\ TotalCount(task_name, fn) > TotalCount(task_name, g)
                    \/ /\ VoicedCount(task_name, fn) = VoicedCount(task_name, g)
                       /\ TotalCount(task_name, fn) = TotalCount(task_name, g)
                       /\ FileRank(fn) > FileRank(g)
    ELSE fn = arows[FirstTaskRow(task_name)].file

\* the rows of file fn in the middle 50% of its time span that do not have
\* a finite voicing_prob below 0.60
MidStable(task_name, fn) ==
    LET fr   == {k \in TaskRows(task_name) : arows[k].file = fn}
        tmin == CHOOSE t \in {arows[k].time_s : k \in fr} :
                    \A k \in fr : t <= arows[k].time_s
        tmax == CHOOSE t \in {arows[k].time_s : k \in fr} :
                    \A k \in fr : t >= arows[k].time_s
    IN {k \in fr :
          /\ 4 * arows[k].time_s >= 4 * tmin + (tmax - tmin)
          /\ 4 * arows[k].time_s <= 4 * tmin + 3 * (tmax - tmin)
          /\ ~(IsFinite(arows[k].voicing_prob) /\ arows[k].voicing_prob < 60)}

TimeSpan(task_name, fn) ==
    LET fr == {k \in TaskRows(task_name) : arows[k].file = fn}
    IN {arows[k].time_s : k \in fr}

NoMetrics ==
    /\ anchor.f0_hz = NoneNum /\ anchor.f1_hz = NoneNum /\ anchor.f2_hz = NoneNum
    /\ anchor.f3_hz = NoneNum /\ anchor.b1_hz = NoneNum /\ anchor.b2_hz = NoneNum
    /\ anchor.b3_hz = NoneNum /\ anchor.spl_db = NoneNum
    /\ anchor.spl_mad_db = NoneNum /\ anchor.n_frames = NoneNum

\* C9 as stated: the result is an error or a summary, never both; a summary
\* needs at least 5 stable frames of the chosen file and then n_frames is
\* their number; with fewer the result is the error
\* 'insufficient_stable_frames' without metric values.
C9_ErrorOrSummary ==
    (Anchored /\ TaskRows("soft_a") # {}) =>
        \E fn \in {"a.wav", "b.wav", "c.wav"} :
            /\ IsChosenFile("soft_a", fn)
            /\ LET n == Cardinality(MidStable("soft_a", fn))
               IN /\ (anchor.error # None) <=> NoMetrics
                  /\ anchor.error = None => (n >= 5 /\ anchor.n_frames = n
                                              /\ anchor.file = fn)
                  /\ n < 5 => (anchor.error = "insufficient_stable_frames"
                                /\ NoMetrics)

\* C9 (amended): the result is an error or a summary, never both; a summary
\* needs at least 5 stable frames of the chosen file and then n_frames is
\* their number; with fewer the result is an error without metric values:
\* 'invalid_time_range' when the chosen file's time span is empty,
\* 'insufficient_stable_frames' otherwise ('no_rows' when the task has no
\* row at all).
C9_ErrorOrSummaryAmended ==
    /\ (Anchored /\ TaskRows("soft_a") = {}) =>
          (anchor.error = "no_rows" /\ NoMetrics)
    /\ (Anchored /\ TaskRows("soft_a") # {}) =>
          \E fn \in {"a.wav", "b.wav", "c.wav"} :
              /\ IsChosenFile("soft_a", fn)
              /\ LET n == Cardinality(MidStable("soft_a", fn))
                     empty_span == Cardinality(TimeSpan("soft_a", fn)) = 1
                 IN /\ (anchor.error # None) <=> NoMetrics
                    /\ anchor.error = None => (n >= 5 /\ anchor.n_frames = n
                                                /\ anchor.file = fn /\ ~empty_span)
                    /\ empty_span => anchor.error = "invalid_time_range"
                    /\ (n < 5 /\ ~empty_span) =>
                          anchor.error = "insufficient_stable_frames"

\* a summary over exactly 5 stable frames of a file that also holds frames
\* with a voicing_prob below 0.60
C9_Witness ==
    /\ Anchored
    /\ anchor.error = None
    /\ anchor.n_frames = 5
    /\ \E k \in 1..Len(arows) :
          arows[k].file = anchor.file /\ arows[k].voicing_prob = 50

NOTE_KEYS == {"F1", "B1", "F2", "B2", "F3", "B3", "f0_mean"}

\* the frame key behind a key of the result
FrameKey(key) ==
    CASE key = "F1" -> "f1" [] key = "B1" -> "b1" [] key = "F2" -> "f2"
      [] key = "B2" -> "b2" [] key = "F3" -> "f3" [] key = "B3" -> "b3"
      [] key = "f0_mean" -> "f0"

ANCHOR_KEYS == {"F1", "B1", "F2", "B2", "F3", "B3", "f0_mean", "spl_dbA_est"}

AnchorKey(key) ==
    CASE key = "F1" -> "f1_hz" [] key = "B1" -> "b1_hz" [] key = "F2" -> "f2_hz"
      [] key = "B2" -> "b2_hz" [] key = "F3" -> "f3_hz" [] key = "B3" -> "b3_hz"
      [] key = "f0_mean" -> "f0_hz" [] key = "spl_dbA_est" -> "spl_db"

MarkedUnavailable(reason) == reason # None /\ reason # "SUCCESS" /\ reason # ""

\* C10: no metric is reported as 0 as if it were measured: a 0 returned by
\* analyze_note_file_robust because no frame carried the value, and a 0
\* persisted for an anchor metric without finite samples, come with a reason
\* that marks the value as unavailable.
C10_NoSilentZero ==
    /\ npc = "done" =>
          \A key \in NOTE_KEYS :
              (result[key] = 0
               /\ Len(Vals(result.best_window_frames, FrameKey(key))) = 0)
                 => MarkedUnavailable(result.reason)
    /\ apc = "stored" =>
          \A key \in ANCHOR_KEYS :
              (anchor[AnchorKey(key)] = NaN /\ stored[key] = 0)
                 => MarkedUnavailable(stored.reason)

---------------------------------------------------------------------------
(* Properties of the rows of the frame QC gate *)

HasFlag(row, flag) == \E k \in 1..Len(row.qc_flags) : row.qc_flags[k] = flag

\* the value v of the row is the raw value, or it is nulled and the row
\* carries one of the flags
KeptOrFlagged(row, v, rawv, flags) ==
    v # rawv => (v = NaN /\ \E f \in flags : HasFlag(row, f))

\* C11: _extract_frames emits exactly one row per input frame whatever flags
\* fire; a formant or bandwidth of a row differs from the raw estimate only
\* by being nulled together with a corresponding flag in the row's qc_flags;
\* the row's f0 (NaN for Praat's unvoiced 0), voicing probability and
\* loudness are the raw values whatever flags the row carries.
C11_OneRowPerFrame ==
    /\ Len(rows) = Len(raw)
    /\ \A k \in 1..Len(rows) :
          LET r  == rows[k]
              fr == raw[k]
          IN /\ r.time_s = k * time_step_ms
             /\ KeptOrFlagged(r, r.f1_hz, fr.f1, {"formant_out_of_range_f1", "jump_f1"})
             /\ KeptOrFlagged(r, r.f2_hz, fr.f2, {"formant_out_of_range_f2", "jump_f2"})
             /\ KeptOrFlagged(r, r.f3_hz, fr.f3, {"formant_out_of_range_f3"})
             /\ KeptOrFlagged(r, r.b1_hz, fr.b1, {"bandwidth_out_of_range_b1"})
             /\ KeptOrFlagged(r, r.b2_hz, fr.b2, {"bandwidth_out_of_range_b2"})
             /\ KeptOrFlagged(r, r.b3_hz, fr.b3, {"bandwidth_out_of_range_b3"})
             /\ r.f0_hz = (IF fr.f0 = 0 THEN NaN ELSE fr.f0)
             /\ r.voicing_prob = fr.vprob
             /\ r.spl_db = (IF fr.inten = NaN THEN NaN ELSE fr.inten + calibration_offset_db)

\* a row flagged low_voicing_prob and high_f0_risk that keeps its f0 and
\* loudness, after a row whose F1 was nulled as a jump
C11_Witness ==
    \E k, m \in 1..Len(rows) :
        /\ k < m
        /\ HasFlag(rows[k], "jump_f1") /\ rows[k].f1_hz = NaN /\ raw[k].f1 = 1100
        /\ HasFlag(rows[m], "low_voicing_prob") /\ HasFlag(rows[m], "high_f0_risk")
        /\ rows[m].f0_hz = 250 /\ rows[m].spl_db = 60

---------------------------------------------------------------------------
(* Properties of the confidence scorer *)

Called == sc_ret # <<NaN, NaN>>

BoundaryDist(b) == IF b < 80 THEN 80 - b ELSE IF b > 600 THEN b - 600 ELSE 0

\* what the score s lacks to 1.0, in units of 1/500
Loss500(s) == (ConfOne - s) \div (ConfOne \div 500)

\* C13: outside [80, 600] the bandwidth score decays linearly with the
\* distance from the nearest boundary, floored at 0: the loss against 1.0 is
\* proportional to that distance while the score is positive, a bandwidth
\* 1 Hz outside a boundary scores just below 1.0 (at least 0.99), and there
\* is no jump at 80 or at 600.
C13_LinearFromBoundary ==
    (Called /\ BoundaryDist(sc_args.bw_hz) > 0) =>
        LET b == sc_args.bw_hz
            s == sc_loc.bw_score
        IN /\ s < ConfOne
           /\ BoundaryDist(b) = 1 => Loss500(s) <= 5
           /\ \A b2 \in ScoreBws :
                 (BoundaryDist(b2) > 0 /\ s > 0 /\ BwScore(b2) > 0)
                    => Loss500(s) * BoundaryDist(b2)
                         = Loss500(BwScore(b2)) * BoundaryDist(b)

\* 0.6 * prom_score + 0.4 * bw_score - harm_penalty of the recorded locals
WeightedScore ==
    3 * (sc_loc.prom_score \div 5) + 2 * (sc_loc.bw_score \div 5)
        - sc_loc.harm_penalty

InUnit(c) == 0 <= c /\ c <= ConfOne

\* C14: the returned confidence equals clamp(0.6 * prominence_score + 0.4 *
\* bandwidth_score - harmonic_penalty, 0, 1) and lies in [0, 1]; the conf1
\* and conf2 stored in the frame stay in [0, 1] after the ordering, spacing
\* and bandwidth-ceiling penalties, and conf1 never exceeds the returned value.
C14_ConfidenceClamped ==
    Called =>
        /\ sc_ret[1] = Min(ConfOne, Max(0, WeightedScore))
        /\ InUnit(sc_ret[1])
        /\ sc_frame # NoFrame =>
              /\ IsFinite(sc_frame.conf1) /\ InUnit(sc_frame.conf1)
              /\ IsFinite(sc_frame.conf2) /\ InUnit(sc_frame.conf2)
              /\ sc_frame.conf1 <= sc_ret[1]

\* a weighted score below 0 (no prominence, bandwidth score 0, harmonic
\* penalty) returned as 0 and stored in a frame
C14_Witness ==
    /\ Called
    /\ WeightedScore < 0
    /\ sc_ret[1] = 0
    /\ sc_frame # NoFrame
    /\ sc_frame.conf1 = 0

\* C15: the prominence score is 0 for every computed prominence below 3 dB
\* (negative ones included), exactly 1 from 6 dB on and (prominence - 3) / 3
\* in between; without an envelope the score is the neutral 0.5 and the
\* returned prominence_db is 0.  (Prominences are in tenths of a dB.)
C15_PromScore ==
    Called =>
        LET p == sc_args.prom
            s == sc_loc.prom_score
        IN /\ p = NaN => (2 * s = ConfOne /\ sc_ret[2] = 0)
           /\ p # NaN =>
                 /\ sc_ret[2] = p
                 /\ p < 30 => s = 0
                 /\ p >= 60 => s = ConfOne
                 /\ (30 <= p /\ p < 60) => s = (p - 30) * (ConfOne \div 30)

\* a negative computed prominence scored 0
C15_Witness ==
    /\ Called
    /\ sc_args.prom = -20
    /\ sc_loc.prom_score = 0
    /\ sc_ret[2] = -20

\* some integer multiple of f0 lies within 3% (relative to freq) of freq
NearHarmonic(freq, f0) ==
    \E n \in 0..(freq \div f0 + 1) : 100 * Abs(freq - n * f0) < 3 * freq

\* C16: the harmonic penalty is 0.2 exactly when f0 > 0, the candidate
\* frequency lies within 3% relative distance of the nearest integer
\* multiple of f0 and the prominence (0 without an envelope) is below 6 dB;
\* otherwise it is 0; it is what the weighted score is reduced by.
C16_HarmonicPenalty ==
    Called =>
        LET applies == /\ sc_args.f0 > 0
                       /\ NearHarmonic(sc_args.freq_hz, sc_args.f0)
                       /\ sc_ret[2] < 60
        IN /\ sc_loc.harm_penalty = (IF applies THEN ConfOne \div 5 ELSE 0)
           /\ sc_ret[1] = Max(0, 3 * (sc_loc.prom_score \div 5)
                                  + 2 * (sc_loc.bw_score \div 5)
                                  - (IF applies THEN ConfOne \div 5 ELSE 0))

\* a candidate 1.1% off the third harmonic with 4.5 dB prominence is
\* penalised
C16_Witness ==
    /\ Called
    /\ sc_args.freq_hz = 455 /\ sc_args.f0 = 150 /\ sc_args.prom = 45
    /\ sc_loc.harm_penalty = ConfOne \div 5
    /\ sc_ret[1] = 3 * (ConfOne \div 10) + 2 * (sc_loc.bw_score \div 5) - ConfOne \div 5

---------------------------------------------------------------------------
(* Properties of peak_prominence_db *)

PromCalled == pp_out.ret # NaN

\* C17 as stated: peak_prominence_db returns 0 whenever the bin index is too
\* close to either end of the envelope to form both flanking windows of the
\* configured half-width, and never computes a prominence from a truncated
\* or empty window.
C17_FullWindowsOrZero ==
    PromCalled =>
        LET k   == WinBins(pp_args.bin_hz)
            idx == pp_args.idx
            n   == Len(pp_env)
        IN /\ (idx - k < 0 \/ idx + k > n - 1) => (pp_out.early /\ pp_out.ret = 0)
           /\ ~pp_out.early => (pp_out.l0 = idx - k /\ pp_out.r0 = idx + k + 1)

\* C17 (amended): peak_prominence_db returns 0 without looking at the
\* envelope exactly when the index is one of the first two or last two bins;
\* otherwise it computes peak - max(min(left), min(right)) over the windows
\* of the configured half-width cut off at the ends of the envelope; a
\* window is never empty (it holds at least two bins unless the half-width
\* is one bin).
C17_EdgeBinsOrTruncated ==
    PromCalled =>
        LET k   == WinBins(pp_args.bin_hz)
            idx == pp_args.idx
            n   == Len(pp_env)
        IN /\ pp_out.early <=> (idx <= 1 \/ idx >= n - 2)
           /\ pp_out.early => pp_out.ret = 0
           /\ ~pp_out.early =>
                 /\ pp_out.l0 = Max(0, idx - k)
                 /\ pp_out.r0 = Min(n, idx + k + 1)
                 /\ idx - pp_out.l0 >= Min(k, 2)
                 /\ pp_out.r0 - (idx + 1) >= Min(k, 2)
                 /\ \E a \in (pp_out.l0 + 1)..idx, b \in (idx + 2)..pp_out.r0 :
                       /\ \A m \in (pp_out.l0 + 1)..idx : pp_env[a] <= pp_env[m]
                       /\ \A m \in (idx + 2)..pp_out.r0 : pp_env[b] <= pp_env[m]
                       /\ pp_out.ret = pp_env[idx + 1] - Max(pp_env[a], pp_env[b])

\* a prominence computed from a left window cut off at the first bin
C17_Witness ==
    /\ PromCalled
    /\ ~pp_out.early
    /\ WinBins(pp_args.bin_hz) = 3
    /\ pp_args.idx = 2
    /\ pp_out.l0 = 0
    /\ pp_out.ret > 0

---------------------------------------------------------------------------
(* Properties of the scans of a session *)

\* the rows of a scan of the raw frames rw from frame k on, alone, with the
\* references pf1 and pf2
RECURSIVE SoloScan(_, _, _, _)
SoloScan(rw, k, pf1, pf2) ==
    IF k > Len(rw) THEN <<>>
    ELSE LET row == QcRow(rw[k], k, pf1, pf2)
         IN <<row>> \o SoloScan(rw, k + 1,
                                IF row.f1_hz # NaN THEN row.f1_hz ELSE pf1,
                                IF row.f2_hz # NaN THEN row.f2_hz ELSE pf2)

\* C18: each recording's scan is self-contained: under every order and
\* interleaving of the scans of a session the rows (and flags) of a
\* recording are those of a scan of its frames alone starting without a
\* reference, its carried reference is its own last accepted F1 / F2, and
\* its first frame is never flagged as a jump.
C18_ScansIndependent ==
    \A r \in Recordings :
        /\ recs[r].rows = SoloScan(recs[r].raw, 1, NaN, NaN)
        /\ recs[r].prev_f1 = LastAccepted(recs[r].rows, Len(recs[r].rows), "f1_hz")
        /\ recs[r].prev_f2 = LastAccepted(recs[r].rows, Len(recs[r].rows), "f2_hz")
        /\ Len(recs[r].rows) > 0 =>
              (~HasFlag(recs[r].rows[1], "jump_f1") /\ ~HasFlag(recs[r].rows[1], "jump_f2"))

\* recording 1 has accepted F1 = 700 and nulled a jump to 1100, recording 2
\* starts with F1 = 1100 and keeps it
C18_Witness ==
    /\ Len(recs[1].rows) = 2
    /\ recs[1].rows[1].f1_hz = 700
    /\ HasFlag(recs[1].rows[2], "jump_f1")
    /\ recs[1].prev_f1 = 700
    /\ Len(recs[2].rows) = 1
    /\ recs[2].raw[1].f1 = 1100
    /\ recs[2].rows[1].f1_hz = 1100
    /\ recs[2].prev_f1 = 1100

---------------------------------------------------------------------------
(* The round-trip scenario *)

\* the note of 20 uniform frames spanning 0.0 to 0.5 s has been summarised
RoundTripDone ==
    /\ npc = "done"
    /\ rt_n = 20
    /\ Len(all_frames) = 20
    /\ all_frames[1].time = 0
    /\ all_frames[20].time = 500

AllConfident ==
    \A k \in 1..Len(all_frames) :
        all_frames[k].conf1 = ConfOne /\ all_frames[k].conf2 = ConfOne

\* C19 as stated: for the 20 frames both confidences are 1.0 in every frame,
\* the window selector picks the entire span of frames, and the reported
\* median F1 and F2 are exactly 700 and 1200.
C19_EntireSpan ==
    RoundTripDone =>
        /\ AllConfident
        /\ result.best_window_frames = all_frames
        /\ result.F1 = 70000
        /\ result.F2 = 120000

\* C19 (amended): for the 20 frames both confidences are 1.0 in every frame,
\* the window selector picks the first 250 ms window, which is the first 10
\* of the 20 frames (no later window scores higher or holds more frames),
\* and the reported median F1 and F2 are exactly 700 and 1200, both marked
\* available.
C19_FirstWindow ==
    RoundTripDone =>
        /\ AllConfident
        /\ result.best_window_frames = SubSeq(all_frames, 1, 10)
        /\ all_frames[10].time <= 250 /\ all_frames[11].time > 250
        /\ result.F1 = 70000
        /\ result.F2 = 120000
        /\ result.F1_available = "True" /\ result.F2_available = "True"

C19_Witness ==
    /\ RoundTripDone
    /\ Len(result.best_window_frames) = 10
    /\ result.F1 = 70000
    /\ result.F2 = 120000

---------------------------------------------------------------------------
(* Repeated invocations *)

\* the output of the latest invocation of the component under repetition
RepOutput ==
    CASE rp_comp = "scorer" -> sc_ret
      [] rp_comp = "window" -> result
      [] rp_comp = "vrp"    -> vrp
      [] rp_comp = "anchor" -> anchor
      [] OTHER              -> None

\* the component has been invoked again and that invocation has returned
Reinvoked ==
    /\ Len(rp_out) > 0
    /\ rp_comp = "window" => npc = "done"

C20_ScorerReached ==
    rp_comp = "scorer" /\ Reinvoked /\ sc_ret[1] > 0 /\ sc_ret[1] < ConfOne

C20_WindowReached ==
    /\ rp_comp = "window" /\ Reinvoked
    /\ result.status = "ok" /\ best_j - best_i >= MIN_FRAMES
    /\ best_j - best_i < Len(all_frames)

C20_AnchorReached ==
    /\ rp_comp = "anchor" /\ Reinvoked
    /\ file_sel = "max_voiced"
    /\ anchor.error = None /\ anchor.file = "a.wav"
    /\ \E k \in 1..Len(arows) : arows[k].file = "b.wav"

---------------------------------------------------------------------------
(* Properties of _ensure_legacy_metrics_structure *)

LegacyCalled == lg_out # NoLegacyMetrics

\* reason and error_details of a block built from anchor a
BlockCarries(b, a) ==
    /\ b.reason = (IF a.error # None THEN a.error ELSE "SUCCESS")
    /\ b.error_details = (IF a.error # None THEN a.error ELSE "")

\* C21: after _ensure_legacy_metrics_structure(metrics, soft_anchor,
\* loud_anchor), metrics holds formants_low, formants_high, formants_soft and
\* formants_loud, and metrics['sustained'] is a dict that holds formants_low,
\* formants_high and the four status keys; the reason of each block is the
\* anchor's error string, or 'SUCCESS' when the anchor has no error, its
\* error_details is the error string or '', and formant_analysis_failed is
\* True exactly when one of the three reason strings is non-empty.
C21_LegacyStructure ==
    LegacyCalled =>
        LET s == lg_out.sustained
        IN /\ HasBlock(lg_out.formants_low) /\ HasBlock(lg_out.formants_high)
           /\ HasBlock(lg_out.formants_soft) /\ HasBlock(lg_out.formants_loud)
           /\ s.kind = "dict"
           /\ HasBlock(s.formants_low) /\ HasBlock(s.formants_high)
           /\ s.formant_analysis_reason_low # Absent
           /\ s.formant_analysis_reason_high # Absent
           /\ s.formant_analysis_reason_sustained # Absent
           /\ s.formant_analysis_failed \in {"True", "False"}
           /\ BlockCarries(lg_out.formants_low, lg_soft)
           /\ BlockCarries(lg_out.formants_high, lg_loud)
           /\ BlockCarries(s.formants_low, lg_soft)
           /\ BlockCarries(s.formants_high, lg_loud)
           /\ lg_out.formants_soft.reason = lg_out.formants_low.reason
           /\ lg_out.formants_loud.reason = lg_out.formants_high.reason
           /\ s.formant_analysis_failed = "True"
                <=> \/ s.formant_analysis_reason_low # ""
                    \/ s.formant_analysis_reason_high # ""
                    \/ s.formant_analysis_reason_sustained # ""

\* both anchors are good and only the sustained formants carry a failure
C21_Witness ==
    /\ LegacyCalled
    /\ lg_soft.error = None /\ lg_loud.error = None
    /\ lg_in.sustained.fs_kind = "dict"
    /\ lg_out.sustained.formant_analysis_reason_low = ""
    /\ lg_out.sustained.formant_analysis_reason_sustained # ""
    /\ lg_out.sustained.formant_analysis_failed = "True"

---------------------------------------------------------------------------
(* Properties of _task_from_s3_key *)

TaskCalled == tk_ret # "none"

\* the key has a step directory: the segment before the file name
HasStepDir == tk_in.form \in {"dir", "deep"}

\* the first three characters of the file name, if it has as many
Prefix3(file) == IF Len(file) >= 3 THEN SubSeq(file, 1, 3) ELSE <<>>

TaskLabels ==
    {"noise", "calibration_read", "step1_other", "vowel_mpt", "glide_up",
     "glide_down", "glide_unknown", "soft_a", "loud_a", "step4_unmapped",
     "read", "free", "unknown"}

\* C22: _task_from_s3_key returns a label for every key, decided by the step
\* directory and the first three characters of the file name: in step 4,
\* 4_1 gives soft_a, 4_2 loud_a and any other file step4_unmapped; in step 3,
\* 3_1 and 3_2 give glide_up, 3_3 and 3_4 glide_down; steps 2, 5 and 6 give
\* vowel_mpt, read and free; an empty key, a key without a directory and a
\* step outside 1..6 give unknown.
C22_TaskMapping ==
    TaskCalled =>
        LET step == tk_in.step
            p == Prefix3(tk_in.file)
        IN /\ tk_ret \in TaskLabels
           /\ ~HasStepDir => tk_ret = "unknown"
           /\ HasStepDir =>
               /\ step = <<"4">> =>
                    tk_ret = (IF p = <<"4", "_", "1">> THEN "soft_a"
                              ELSE IF p = <<"4", "_", "2">> THEN "loud_a"
                              ELSE "step4_unmapped")
               /\ (step = <<"3">> /\ p \in {<<"3", "_", "1">>, <<"3", "_", "2">>})
                    => tk_ret = "glide_up"
               /\ (step = <<"3">> /\ p \in {<<"3", "_", "3">>, <<"3", "_", "4">>})
                    => tk_ret = "glide_down"
               /\ step = <<"2">> => tk_ret = "vowel_mpt"
               /\ step = <<"5">> => tk_ret = "read"
               /\ step = <<"6">> => tk_ret = "free"
               /\ step \notin {<<d>> : d \in {"1", "2", "3", "4", "5", "6"}}
                    => tk_ret = "unknown"

\* "x/raw/4/4_1.wav" gave soft_a
C22_Witness ==
    /\ TaskCalled
    /\ tk_in.form = "deep" /\ tk_in.step = <<"4">>
    /\ tk_in.file = <<"4", "_", "1">> \o DotWav
    /\ tk_ret = "soft_a"

---------------------------------------------------------------------------
(* Properties of analyze_sustained_vowel *)

\* the positions of the paths that exist and end in .wav
UsablePaths ==
    {k \in 1..Len(sv_paths) :
        sv_paths[k].path = "wav" /\ sv_paths[k].exists}

\* those whose voiced duration could be measured
MeasuredPaths == {k \in UsablePaths : sv_paths[k].loads}

\* the first of the measured paths with the greatest voiced duration
FirstLongestVoiced ==
    CHOOSE k \in MeasuredPaths :
        /\ \A j \in MeasuredPaths : sv_paths[j].voiced <= sv_paths[k].voiced
        /\ \A j \in MeasuredPaths : j < k => sv_paths[j].voiced < sv_paths[k].voiced

---------------------------------------------------------------------------
(* Properties of _sort_and_select_notes *)

NotesDone == np_pc = "done"

\* the positions in np_paths that hold path x
PositionsOf(x) == {k \in 1..Len(np_paths) : np_paths[k] = x}

---------------------------------------------------------------------------
(* Properties of the validator on one frame *)

Validated == vf_frame # NoFrame

\* the three rules on the validated frame
Rule12Ok ==
    (IsFinite(vf_frame.f1) /\ IsFinite(vf_frame.f2)) =>
        (vf_frame.f1 < vf_frame.f2 /\ vf_frame.f2 - vf_frame.f1 >= 150)

Rule23Ok ==
    (IsFinite(vf_frame.f2) /\ IsFinite(vf_frame.f3)) =>
        (vf_frame.f2 < vf_frame.f3 /\ vf_frame.f3 - vf_frame.f2 >= 200)

RuleBwOk ==
    /\ ~(IsFinite(vf_frame.b1) /\ vf_frame.b1 > 700)
    /\ ~(IsFinite(vf_frame.b2) /\ vf_frame.b2 > 700)

\* c multiplied n times by 0.2
RECURSIVE Times02(_, _)
Times02(c, n) == IF n = 0 THEN c ELSE Times02(c \div 5, n - 1)

Violations(rules) == Cardinality({k \in 1..Len(rules) : ~rules[k]})

\* C25: the validated frame carries conf1 and conf2 as the scorer gave them
\* exactly when the F1/F2 rule, the F2/F3 rule and the bandwidth ceiling all
\* hold; each violated rule multiplies the confidences of the formants it
\* involves by 0.2 (conf1 and conf2 for the F1/F2 rule and the ceiling,
\* conf2 for the F2/F3 rule), compounding; the validator never sets a
\* confidence to zero and never removes the frame.
C25_ValidatorRules ==
    Validated =>
        LET n1 == Violations(<<Rule12Ok, RuleBwOk>>)
            n2 == Violations(<<Rule12Ok, RuleBwOk, Rule23Ok>>)
        IN /\ (vf_frame.conf1 = vf_scored[1] /\ vf_frame.conf2 = vf_scored[2])
                <=> (Rule12Ok /\ Rule23Ok /\ RuleBwOk)
           /\ IsFinite(vf_scored[1]) => vf_frame.conf1 = Times02(vf_scored[1], n1)
           /\ IsFinite(vf_scored[2]) => vf_frame.conf2 = Times02(vf_scored[2], n2)
           /\ vf_frame.conf1 = 0 => vf_scored[1] = 0
           /\ vf_frame.conf2 = 0 => vf_scored[2] = 0
           /\ vf_frame.time = 0

\* the same for the confidences the scorer produced: a formant that was not
\* scored is left out of the last clause
C25_ScoredConfidences ==
    Validated =>
        LET n1 == Violations(<<Rule12Ok, RuleBwOk>>)
            n2 == Violations(<<Rule12Ok, RuleBwOk, Rule23Ok>>)
        IN /\ (vf_frame.conf1 = vf_scored[1] /\ vf_frame.conf2 = vf_scored[2])
                <=> (Rule12Ok /\ Rule23Ok /\ RuleBwOk)
           /\ IsFinite(vf_scored[1]) =>
                vf_frame.conf1 = Times02(vf_scored[1], n1) /\ vf_frame.conf1 > 0
           /\ IsFinite(vf_scored[2]) =>
                vf_frame.conf2 = Times02(vf_scored[2], n2) /\ vf_frame.conf2 > 0
           /\ vf_frame.time = 0

\* all three rules are violated on a frame with three formants
C25_Compound ==
    /\ Validated
    /\ ~Rule12Ok /\ ~Rule23Ok /\ ~RuleBwOk
    /\ vf_frame.conf2 = Times02(vf_scored[2], 3) /\ vf_frame.conf2 > 0

---------------------------------------------------------------------------
(* Confidences and the formants they belong to *)

\* C28: in every frame collected by analyze_note_file_robust, conf1 (conf2)
\* is present only if the frame has an f1 (f2) with a finite bandwidth, also
\* after the spacing and bandwidth-ceiling penalties; so the frames whose
\* conf1 (conf2) enters the median that decides F1_available (F2_available)
\* all carry that formant.
C28_ConfOnlyWithFormant ==
    /\ \A k \in 1..Len(all_frames) :
          LET fr == all_frames[k]
          IN /\ IsFinite(fr.conf1) => (IsFinite(fr.f1) /\ IsFinite(fr.b1))
             /\ IsFinite(fr.conf2) => (IsFinite(fr.f2) /\ IsFinite(fr.b2))
    /\ Summarised =>
          \A k \in 1..Len(result.best_window_frames) :
              LET fr == result.best_window_frames[k]
              IN /\ IsFinite(fr.conf1) => IsFinite(fr.f1)
                 /\ IsFinite(fr.conf2) => IsFinite(fr.f2)

\* F1 is reported unavailable although every frame of the window that
\* carries an F1 has full confidence: the median was pulled down by the
\* conf1 = 0 of frames without an F1
C28_SpuriousUnavailable ==
    /\ Summarised
    /\ result.F1 # 0
    /\ result.F1_available = "False"
    /\ \A k \in 1..Len(result.best_window_frames) :
          LET fr == result.best_window_frames[k]
          IN IsFinite(fr.f1) => fr.conf1 = ConfOne

---------------------------------------------------------------------------
(* Properties of the rows the frame scan emits *)

InRange(v, range) == range[1] <= v /\ v <= range[2]

\* the positions of rs whose value of key is finite, in order
FinitePositions(rs, key) ==
    SelectSeq([k \in 1..Len(rs) |-> k], LAMBDA k : IsFinite(rs[k][key]))

\* neighbours in the finite values of key (nulled rows skipped) differ by
\* at most limit
TrackSmooth(rs, key, limit) ==
    LET ps == FinitePositions(rs, key)
    IN \A n \in 1..(Len(ps) - 1) :
          Abs(rs[ps[n + 1]][key] - rs[ps[n]][key]) <= limit

\* C27: in the rows _extract_frames emits for one recording every finite
\* f1_hz lies in [150, 1200], every finite f2_hz in [500, 3500] and every
\* finite f3_hz in [1500, 4500]; two consecutive finite values of a track
\* (rows with a nulled value skipped) differ by at most 300 Hz for f1_hz and
\* at most 500 Hz for f2_hz; and a value outside its range never becomes the
\* previous-accepted reference.
C27_RowsInRange ==
    /\ \A k \in 1..Len(rows) :
          /\ IsFinite(rows[k].f1_hz) => InRange(rows[k].f1_hz, F1_RANGE)
          /\ IsFinite(rows[k].f2_hz) => InRange(rows[k].f2_hz, F2_RANGE)
          /\ IsFinite(rows[k].f3_hz) => InRange(rows[k].f3_hz, F3_RANGE)
    /\ TrackSmooth(rows, "f1_hz", JUMP_F1)
    /\ TrackSmooth(rows, "f2_hz", JUMP_F2)
    /\ IsFinite(prev_f1) => InRange(prev_f1, F1_RANGE)
    /\ IsFinite(prev_f2) => InRange(prev_f2, F2_RANGE)
    /\ (Len(rows) > 0 /\ IsFinite(raw[Len(raw)].f1)
            /\ ~InRange(raw[Len(raw)].f1, F1_RANGE))
          => prev_f1 = LastAccepted(rows, Len(rows) - 1, "f1_hz")
    /\ (Len(rows) > 0 /\ IsFinite(raw[Len(raw)].f2)
            /\ ~InRange(raw[Len(raw)].f2, F2_RANGE))
          => prev_f2 = LastAccepted(rows, Len(rows) - 1, "f2_hz")

\* an F1 of 1400 Hz after an accepted 1100 Hz is nulled by the range rule, the
\* next F1 (1000 Hz) is accepted against 1100 Hz, and an F2 of 3600 Hz leaves
\* the F2 reference at 1200 Hz
C27_Witness ==
    /\ Len(rows) = 4
    /\ RawF1s = <<1100, 1400, 1000, 700>>
    /\ raw[4].f2 = 3600
    /\ rows[2].f1_hz = NaN
    /\ rows[3].f1_hz = 1000
    /\ rows[4].f1_hz = 700
    /\ rows[4].f2_hz = NaN
    /\ prev_f1 = 700
    /\ prev_f2 = 1200

---------------------------------------------------------------------------
(* Properties of handle_analyze_task *)

TaskReturned == analyze_task.pc = "returned"

TaskItem == table[analyze_task.sessionId]

\* the item holds the status and the three results of one 'done' update
HoldsResults(item) ==
    /\ item.status = "done"
    /\ item.metrics = "metrics"
    /\ item.charts = "charts"
    /\ item.reportPdf = "report.pdf"

\* the analysis or the update that stores its results raised
AnalysisFailed == analyze_task.raised \cap {"analysis", "update_done"} # {}

C26_EventFailureReached ==
    /\ TaskReturned
    /\ analyze_task.raised = {"put_event"}
    /\ HoldsResults(TaskItem)

C26_WriteFailureReached ==
    /\ TaskReturned
    /\ analyze_task.raised = {"analysis", "update_failed"}
    /\ TaskItem.status = "processing"

---------------------------------------------------------------------------
(* Properties of the analysis of a session, from trigger to result *)

Processing(s) == table[s].status = "processing"

Finished(s) == table[s].status \in {"done", "failed"}

\* an invocation for session s is held by Lambda or running
Underway(s) ==
    \/ \E i \in 1..Len(invocations) : invocations[i].sessionId = s
    \/ analyze_task.pc # "idle" /\ analyze_task.sessionId = s

\* C29 as stated: every session whose status handle_analyze_trigger sets to
\* 'processing' eventually gets status 'done' or 'failed', also when the
\* asynchronous invocation fails after the status update and when the
\* status write in the task's failure branch fails.
C29_ProcessingEnds ==
    \A s \in SessionIds : Processing(s) ~> Finished(s)

\* the trigger answered 500 after the status update: the session is
\* 'processing' and nothing is left to run
C29_Stranded ==
    /\ api.op = "POST /analyze"
    /\ api.code = "500"
    /\ Processing(api.sessionId)
    /\ ~Underway(api.sessionId)

---------------------------------------------------------------------------
(* Properties of the session-scoped endpoints *)

SessionScoped == {"POST /uploads", "POST /analyze", "GET /results"}

\* the step is handler() answering a request of one of ops that names a
\* session
Answers(ops) ==
    /\ api.code = Pending
    /\ api'.code # Pending
    /\ api.op \in ops
    /\ api.sessionId # None

\* the caller is not authenticated, or the session does not exist, or it
\* is another user's
Foreign == api.caller = None \/ NotOwner(table[api.sessionId], api.caller)

Refused(codes) ==
    /\ table' = table
    /\ invocations' = invocations
    /\ api'.code \in codes

\* C30 as stated: a session-scoped endpoint (upload URL, results, analyze
\* trigger) reads or changes a session only for an authenticated caller
\* whose userId is the session's; for any other caller, and for a sessionId
\* that does not exist, no session item is created or modified, no analysis
\* is started and the response is 401, 403 or 404 (or the 500 of a table
\* that cannot be reached).
C30_OwnerOnly ==
    [][(Answers(SessionScoped) /\ Foreign)
          => Refused({"401", "403", "404", "500"})]_vars

\* the upload-URL and results endpoints keep to it
C30_UploadAndResultsGuarded ==
    [][(Answers({"POST /uploads", "GET /results"}) /\ Foreign)
          => Refused({"401", "403", "404", "500"})]_vars

\* the trigger queued an analysis of another user's session for a caller
\* who is not authenticated
C30_ForeignTrigger ==
    /\ api.op = "POST /analyze"
    /\ api.code = "202"
    /\ api.caller = None
    /\ table[api.sessionId].userId \in UserIds
    /\ Processing(api.sessionId)
    /\ Underway(api.sessionId)

\* the trigger made an item for a sessionId that no session had
C30_ItemWithoutOwner ==
    \E s \in SessionIds : Processing(s) /\ table[s].userId = Absent

=============================================================================
